---- MODULE Spec2Model ----
(***************************************************************************)
(* Model of src/Connection.py: the price-tracking pipeline                  *)
(*   main -> map_api_record_to_internal -> dedup ->                         *)
(*   process_and_commit_changes (baseline load, diff, notify, commit).      *)
(*                                                                          *)
(* The program is a single asyncio task once the shard fetches have been    *)
(* gathered, so its steps are the code segments between two awaits: one     *)
(* baseline rpc per batch, one send_telegram_message per CHANGED record,    *)
(* one history insert per batch.  The environment (store availability,      *)
(* Telegram connection, delivery outcome) is chosen at each await.          *)
(*                                                                          *)
(* Spec checks the pipeline over successive runs on any gathered data;      *)
(* SpecFetch checks one whole execution of main, with the concurrent shard  *)
(* fetches (fetch_drug_data_for_query under the semaphore) in front;        *)
(* SpecLive checks successive runs that go on to their end; SpecCompare     *)
(* checks are_values_different on its own.                                  *)
(***************************************************************************)
EXTENDS Integers, Sequences, FiniteSets, TLC

(***************************************************************************)
(* Bounds of the model.                                                     *)
(***************************************************************************)
\* Number of executions of main checked in a row.
MaxRuns == 2
\* Longest list of raw records gathered from the shards (all_raw_drugs).
MaxRecs == 2
\* Batch sizes of the baseline rpc and of the history insert, scaled down
\* from 1000 (Connection.py:450) and 500 (Connection.py:532) so that the
\* identifiers of a run span a full and a partial rpc batch, and its queued
\* records several insert batches.
BATCH_RPC_SIZE == 2
BATCH_INSERT_SIZE == 1
\* Number of query shards, scaled down from the 676 two-letter queries
\* (Connection.py:662).
NShards == 3
\* Attempts per shard and permits of the semaphore, scaled down from their
\* defaults 5 (Connection.py:29) and 10 (Connection.py:31), and kept below
\* NShards so that the tasks contend for the permits.
MAX_RETRIES == 2
MAX_CONCURRENT_REQUESTS == 2

\* Base of the backoff wait, in seconds.
RETRY_DELAY_SECONDS == 2

(***************************************************************************)
(* Python values.  A value is None, a number or a string; numbers that are  *)
(* prices are held exactly, in hundredths.                                  *)
(***************************************************************************)
Null == [k |-> "null", n |-> 0, s |-> ""]
Num(c) == [k |-> "num", n |-> c, s |-> ""]
Str(x) == [k |-> "str", n |-> 0, s |-> x]
\* Decimal('NaN'): what Decimal(str(v)) yields for the string "NaN".
NaN == [k |-> "nan", n |-> 0, s |-> ""]

\* Decimal(s) for the strings of the model; Null stands for InvalidOperation.
DecimalOfStr(x) ==
  CASE x = "10.00" -> Num(1000)
    [] x = "10.0" -> Num(1000)
    [] x = " 10.00" -> Num(1000)
    [] x = "12.50" -> Num(1250)
    [] x = "NaN" -> NaN
    [] OTHER -> Null

\* datetime.fromisoformat(s.replace('Z', '+00:00')) for the strings of the
\* model, as an instant; Null stands for ValueError.
IsoOfStr(x) ==
  CASE x = "2024-01-01T00:00:00Z" -> Num(1)
    [] x = "2024-01-01T00:00:00+00:00" -> Num(1)
    [] x = "2024-01-02T00:00:00Z" -> Num(2)
    [] OTHER -> Null

\* s.strip() for the strings of the model.
Strip(x) ==
  CASE x = " abc" -> "abc"
    [] x = " 10.00" -> "10.00"
    [] OTHER -> x

\* str(v) for an integer identifier, None or a string.
PyStr(v) ==
  CASE v.k = "str" -> v.s
    [] v.k = "null" -> "None"
    [] v.k = "num" /\ v.n = 1 -> "1"
    [] v.k = "num" /\ v.n = 2 -> "2"
    [] OTHER -> "?"

\* Python truthiness of a value (None, 0 and "" are falsy).
Truthy(v) ==
  CASE v.k = "null" -> FALSE
    [] v.k = "num" -> v.n # 0
    [] v.k = "str" -> v.s # ""
    [] OTHER -> TRUE

to_decimal_or_none(value) ==
  CASE value.k = "null" -> Null
    [] value.k = "num" -> value
    [] value.k = "str" -> DecimalOfStr(value.s)
    [] OTHER -> value

parse_iso_datetime(ts_str) ==
  IF ts_str.k # "str" THEN Null ELSE IsoOfStr(ts_str.s)

\* Decimal.__ne__: a NaN differs from everything, itself included.
DecimalNe(d1, d2) == d1.k = "nan" \/ d2.k = "nan" \/ d1 # d2

\* str(v).strip() as compared on the last line of are_values_different.  The
\* text of a number is always Decimal-parsable, so it never equals the text
\* of a value that failed Decimal parsing; it is kept apart by its kind.
StrStrip(v) == IF v.k = "str" THEN Str(Strip(v.s)) ELSE v

\* Mutant: the test for two absent values is missing.
are_values_different_no_both_none(val1, val2) ==
  IF val1.k = "null" \/ val2.k = "null" THEN TRUE
  ELSE LET dec1 == to_decimal_or_none(val1)
           dec2 == to_decimal_or_none(val2)
           dt1 == parse_iso_datetime(val1)
           dt2 == parse_iso_datetime(val2)
       IN IF dec1.k # "null" /\ dec2.k # "null" THEN DecimalNe(dec1, dec2)
          ELSE IF dt1.k # "null" /\ dt2.k # "null" THEN dt1 # dt2
          ELSE StrStrip(val1) # StrStrip(val2)

are_values_different(val1, val2) ==
  IF val1.k = "null" /\ val2.k = "null" THEN FALSE
  ELSE IF val1.k = "null" \/ val2.k = "null" THEN TRUE
  ELSE LET dec1 == to_decimal_or_none(val1)
           dec2 == to_decimal_or_none(val2)
           dt1 == parse_iso_datetime(val1)
           dt2 == parse_iso_datetime(val2)
       IN IF dec1.k # "null" /\ dec2.k # "null" THEN DecimalNe(dec1, dec2)
          ELSE IF dt1.k # "null" /\ dt2.k # "null" THEN dt1 # dt2
          ELSE StrStrip(val1) # StrStrip(val2)

\* float(Decimal(str(value))), or None.
to_float_or_none(value) ==
  LET dec_val == to_decimal_or_none(value)
  IN IF dec_val.k = "num" THEN dec_val ELSE Null

(***************************************************************************)
(* Records.                                                                 *)
(***************************************************************************)
\* A raw record of the price source: the fields the pipeline reads.  The
\* identifiers of the source are strings; a record may lack its identifier,
\* its price or its barcode (the items without barcode are those of
\* identifier "1").
RawIds == {Null, Str("1"), Str("2")}
RawPrices == {Null, Str("12.50")}
RawBarcodes == {Null, Str("b")}
RawRecords ==
  {r \in [id : RawIds, price : RawPrices, barcode : RawBarcodes] :
     \/ r.id = Str("1")
     \/ r.id = Str("2") /\ r.barcode # Null
     \/ r.id = Null /\ r.price = Null /\ r.barcode = Null}

\* Marks "no record" where Python has None.
NoDrug == [ID |-> Null, Current_Price |-> Null, Previous_Price |-> Null, Barcode |-> Null]

map_api_record_to_internal(api_record) ==
  IF ~Truthy(api_record.id) THEN NoDrug
  ELSE [ID |-> api_record.id,
        Current_Price |-> to_float_or_none(api_record.price),
        Previous_Price |-> Null,
        Barcode |-> api_record.barcode]

\* A row of the history table, and "no row".
NoRow == [id |-> "", current_price |-> Null, previous_price |-> Null, barcode |-> Null, scraped_at |-> 0]


(***************************************************************************)
(* State.                                                                   *)
(***************************************************************************)
VARIABLES
  ext,                     \* all_raw_drugs: what the shard fetches return, in gather order
  supabase,                \* module global: TRUE iff create_client succeeded
  history,                 \* the history table: the rows inserted so far, oldest first
  run,                     \* number of finished executions of main
  pc,                      \* position of the running main
  telegram_client,         \* "none" or "client": telegram_client_instance of this run
  drugs,                   \* unique_drugs_list, the argument of process_and_commit_changes
  all_ids_to_check,        \* local of process_and_commit_changes
  last_row_by_id,          \* local: identifier -> loaded baseline row, or NoRow
  i,                       \* index of the loop the run is in
  records_to_commit,       \* local: the NEW and CHANGED candidates
  final_records_to_upload, \* local: the commit queue
  supabase_records,        \* local: the rows built from the commit queue
  rpcLog,                  \* calls of get_latest_record_for_ids made by this run
  notifyLog,               \* calls of send_telegram_message made by this run
  commitLog,               \* writes to the store made by this run
  gate,                    \* what the run logged for each entry of records_to_commit
  clock,                   \* number of external calls made by this run
  prev,                    \* summary of the previous run
  api_url,                 \* module global API_URL: TRUE iff it is set
  task,                    \* the shard-fetch tasks of main: shard -> its position and log
  semaphore,               \* free permits of asyncio.Semaphore(MAX_CONCURRENT_REQUESTS)
  exit,                    \* what main had done when it last returned
  cmp                      \* a call of are_values_different: its arguments and results

vars == <<ext, supabase, history, run, pc, telegram_client, drugs, all_ids_to_check,
          last_row_by_id, i, records_to_commit, final_records_to_upload,
          supabase_records, rpcLog, notifyLog, commitLog, gate, clock, prev,
          api_url, task, semaphore, exit, cmp>>

\* The state of the fetch stage.
fetchVars == <<api_url, task, semaphore>>

\* The identifiers the price source can return, as the store holds them.
IdStrs == {PyStr(v) : v \in {w \in RawIds : Truthy(w)}} \cup {"3"}

\* Prices a row written by an earlier run can hold.
DbPrices == {Null, Num(1000), Num(1250)}

Min(a, b) == IF a < b THEN a ELSE b

Range(f) == {f[j] : j \in DOMAIN f}

\* Sequences over S of length at most n.
SeqsUpTo(S, n) == UNION {[1..m -> S] : m \in 0..n}

\* list(set): the elements of S in any order.
Perms(S) == {p \in [1..Cardinality(S) -> S] : \A a, b \in DOMAIN p : a # b => p[a] # p[b]}

\* Mutant: the rpc returns the oldest row of an identifier.
Oldest(hist, id) ==
  LET js == {j \in DOMAIN hist : hist[j].id = id}
  IN IF js = {} THEN NoRow
     ELSE hist[CHOOSE j \in js : \A h \in js : j <= h]

\* The most recent row of the history table for an identifier
\* (rpc get_latest_record_for_ids), or NoRow.
Latest(hist, id) ==
  LET js == {j \in DOMAIN hist : hist[j].id = id}
  IN IF js = {} THEN NoRow
     ELSE hist[CHOOSE j \in js : \A h \in js : h <= j]

\* mapped_drugs and valid_mapped_drugs of main.
valid_mapped_drugs(raw) ==
  LET mapped == [j \in DOMAIN raw |-> map_api_record_to_internal(raw[j])]
  IN SelectSeq(mapped, LAMBDA d : d # NoDrug)

\* {d['ID']: d for d in valid}.values(): one entry per key, at the position
\* of the key's first occurrence, holding the key's last occurrence.
RECURSIVE unique_drugs_from(_, _)
unique_drugs_from(valid, j) ==
  IF j > Len(valid) THEN <<>>
  ELSE LET d == valid[j]
           first == \A h \in 1..(j - 1) : valid[h].ID # d.ID
           same == {h \in DOMAIN valid : valid[h].ID = d.ID}
           last == valid[CHOOSE h \in same : \A g \in same : g <= h]
       IN (IF Truthy(d.ID) /\ first THEN <<last>> ELSE <<>>)
            \o unique_drugs_from(valid, j + 1)

unique_drugs_list(raw) == unique_drugs_from(valid_mapped_drugs(raw), 1)

\* The query shards of main (search_queries), by position.
Shards == 1..NShards

\* A shard-fetch task that has not been created.
NoTask == [pc |-> "none", attempt |-> 0, log |-> <<>>, waits |-> <<>>, result |-> <<>>]

\* main has not returned.
NoExit == [returned |-> FALSE, logged |-> FALSE, connected |-> FALSE]

\* No call of are_values_different is looked at.
NoCmp == [pc |-> "none", val1 |-> Null, val2 |-> Null,
          forth |-> FALSE, back |-> FALSE, self |-> FALSE]

\* The summary of a run that has not happened.
NoPrev == [ran |-> FALSE, skipped |-> {}, notified |-> {}, commitFailed |-> FALSE]

\* The stores the first run can meet: at most one earlier row per identifier,
\* of any price for "1" and of price 10.00 for "2".
InitRow(id, p) == [id |-> id, current_price |-> p, previous_price |-> Null,
                   barcode |-> Str("b"), scraped_at |-> 0]

InitHistories ==
  LET opt(id) == {<<>>} \cup {<<InitRow(id, p)>> : p \in DbPrices}
  IN {a \o b : a \in opt("1"), b \in {<<>>, <<InitRow("2", Num(1000))>>}}

Init ==
  /\ ext \in SeqsUpTo(RawRecords, MaxRecs)
  /\ supabase \in BOOLEAN
  /\ history \in InitHistories
  /\ run = 0
  /\ pc = "idle"
  /\ telegram_client = "none"
  /\ drugs = <<>>
  /\ all_ids_to_check = <<>>
  /\ last_row_by_id = [id \in IdStrs |-> NoRow]
  /\ i = 0
  /\ records_to_commit = <<>>
  /\ final_records_to_upload = <<>>
  /\ supabase_records = <<>>
  /\ rpcLog = <<>>
  /\ notifyLog = <<>>
  /\ commitLog = <<>>
  /\ gate = <<>>
  /\ clock = 0
  /\ prev = NoPrev
  /\ api_url = TRUE
  /\ task = [s \in Shards |-> NoTask]
  /\ semaphore = MAX_CONCURRENT_REQUESTS
  /\ exit = NoExit
  /\ cmp = NoCmp


(***************************************************************************)
(* main up to the call of process_and_commit_changes, and the head of       *)
(* process_and_commit_changes up to its first await.                        *)
\* Mutant: process_and_commit_changes goes on without a store client.
StartRunWithoutStoreCheck ==
  /\ pc = "idle"
  /\ run < MaxRuns
  /\ LET unique == unique_drugs_list(ext)
         idset == {PyStr(d.ID) : d \in {e \in Range(unique) : Truthy(e.ID)}}
         enters == unique # <<>> /\ idset # {}
     IN /\ \E tg \in {"none", "client"} : telegram_client' = tg
        /\ drugs' = unique
        /\ IF enters
           THEN /\ \E ids \in Perms(idset) : all_ids_to_check' = ids
                /\ pc' = "load"
           ELSE /\ all_ids_to_check' = <<>>
                /\ pc' = "finally"
  /\ last_row_by_id' = [id \in IdStrs |-> NoRow]
  /\ i' = 0
  /\ exit' = NoExit
  /\ UNCHANGED <<fetchVars, cmp>>
  /\ UNCHANGED <<ext, supabase, history, run, records_to_commit,
                 final_records_to_upload, supabase_records, rpcLog, notifyLog,
                 commitLog, gate, clock, prev>>

(***************************************************************************)
StartRun ==
  /\ pc = "idle"
  /\ run < MaxRuns
  /\ LET unique == unique_drugs_list(ext)
         idset == {PyStr(d.ID) : d \in {e \in Range(unique) : Truthy(e.ID)}}
         enters == unique # <<>> /\ supabase /\ idset # {}
     IN /\ \E tg \in {"none", "client"} : telegram_client' = tg
        /\ drugs' = unique
        /\ IF enters
           THEN /\ \E ids \in Perms(idset) : all_ids_to_check' = ids
                /\ pc' = "load"
           ELSE /\ all_ids_to_check' = <<>>
                /\ pc' = "finally"
  /\ last_row_by_id' = [id \in IdStrs |-> NoRow]
  /\ i' = 0
  /\ exit' = NoExit
  /\ UNCHANGED <<fetchVars, cmp>>
  /\ UNCHANGED <<ext, supabase, history, run, records_to_commit,
                 final_records_to_upload, supabase_records, rpcLog, notifyLog,
                 commitLog, gate, clock, prev>>

\* Mutant: a failed rpc ends the baseline loop.
LoadBatchStopsOnFailure ==
  /\ pc = "load"
  /\ i < Len(all_ids_to_check)
  /\ LET batch_ids == SubSeq(all_ids_to_check, i + 1,
                             Min(i + BATCH_RPC_SIZE, Len(all_ids_to_check)))
     IN \E ok \in BOOLEAN :
          /\ rpcLog' = Append(rpcLog, [ids |-> batch_ids, ok |-> ok, t |-> clock + 1])
          /\ last_row_by_id' =
               IF ok
               THEN [id \in IdStrs |->
                       IF id \in Range(batch_ids) /\ Latest(history, id) # NoRow
                       THEN Latest(history, id)
                       ELSE last_row_by_id[id]]
               ELSE last_row_by_id
          /\ i' = IF ok THEN i + BATCH_RPC_SIZE ELSE Len(all_ids_to_check)
  /\ clock' = clock + 1
  /\ UNCHANGED <<fetchVars, exit, cmp>>
  /\ UNCHANGED <<ext, supabase, history, run, pc, telegram_client, drugs,
                 all_ids_to_check, records_to_commit, final_records_to_upload,
                 supabase_records, notifyLog, commitLog, gate, prev>>

\* Mutant: the slice of a batch is one identifier short.
LoadBatchShortSlice ==
  /\ pc = "load"
  /\ i < Len(all_ids_to_check)
  /\ LET batch_ids == SubSeq(all_ids_to_check, i + 1,
                             Min(i + BATCH_RPC_SIZE - 1, Len(all_ids_to_check)))
     IN \E ok \in BOOLEAN :
          /\ rpcLog' = Append(rpcLog, [ids |-> batch_ids, ok |-> ok, t |-> clock + 1])
          /\ last_row_by_id' =
               IF ok
               THEN [id \in IdStrs |->
                       IF id \in Range(batch_ids) /\ Latest(history, id) # NoRow
                       THEN Latest(history, id)
                       ELSE last_row_by_id[id]]
               ELSE last_row_by_id
  /\ i' = i + BATCH_RPC_SIZE
  /\ clock' = clock + 1
  /\ UNCHANGED <<fetchVars, exit, cmp>>
  /\ UNCHANGED <<ext, supabase, history, run, pc, telegram_client, drugs,
                 all_ids_to_check, records_to_commit, final_records_to_upload,
                 supabase_records, notifyLog, commitLog, gate, prev>>

\* Mutant: the rows an rpc returns are not kept.
LoadBatchRowsLost ==
  /\ pc = "load"
  /\ i < Len(all_ids_to_check)
  /\ LET batch_ids == SubSeq(all_ids_to_check, i + 1,
                             Min(i + BATCH_RPC_SIZE, Len(all_ids_to_check)))
     IN \E ok \in BOOLEAN :
          /\ rpcLog' = Append(rpcLog, [ids |-> batch_ids, ok |-> ok, t |-> clock + 1])
          /\ last_row_by_id' = last_row_by_id
  /\ i' = i + BATCH_RPC_SIZE
  /\ clock' = clock + 1
  /\ UNCHANGED <<fetchVars, exit, cmp>>
  /\ UNCHANGED <<ext, supabase, history, run, pc, telegram_client, drugs,
                 all_ids_to_check, records_to_commit, final_records_to_upload,
                 supabase_records, notifyLog, commitLog, gate, prev>>

(***************************************************************************)
(* One iteration of the baseline loop: one rpc, which returns the latest    *)
(* row of each identifier of the batch that has one, or raises.             *)
(***************************************************************************)
LoadBatch ==
  /\ pc = "load"
  /\ i < Len(all_ids_to_check)
  /\ LET batch_ids == SubSeq(all_ids_to_check, i + 1,
                             Min(i + BATCH_RPC_SIZE, Len(all_ids_to_check)))
     IN \E ok \in BOOLEAN :
          /\ rpcLog' = Append(rpcLog, [ids |-> batch_ids, ok |-> ok, t |-> clock + 1])
          /\ last_row_by_id' =
               IF ok
               THEN [id \in IdStrs |->
                       IF id \in Range(batch_ids) /\ Latest(history, id) # NoRow
                       THEN Latest(history, id)
                       ELSE last_row_by_id[id]]
               ELSE last_row_by_id
  /\ i' = i + BATCH_RPC_SIZE
  /\ clock' = clock + 1
  /\ UNCHANGED <<fetchVars, exit, cmp>>
  /\ UNCHANGED <<ext, supabase, history, run, pc, telegram_client, drugs,
                 all_ids_to_check, records_to_commit, final_records_to_upload,
                 supabase_records, notifyLog, commitLog, gate, prev>>

\* Mutant: a candidate whose barcode differs from its baseline's is CHANGED too.
ClassificationAnyField(drug_data, rows) ==
  LET last_db_record == rows[PyStr(drug_data.ID)]
  IN IF last_db_record = NoRow THEN "NEW"
     ELSE IF \/ are_values_different(drug_data.Current_Price, last_db_record.current_price)
             \/ are_values_different(drug_data.Barcode, last_db_record.barcode)
          THEN "CHANGED"
          ELSE "UNCHANGED"

\* The classification of one candidate against the loaded baselines.
Classification(drug_data, rows) ==
  LET last_db_record == rows[PyStr(drug_data.ID)]
  IN IF last_db_record = NoRow THEN "NEW"
     ELSE IF are_values_different(drug_data.Current_Price, last_db_record.current_price)
          THEN "CHANGED"
          ELSE "UNCHANGED"

\* Mutant: a candidate without baseline is not flagged is_new.
RECURSIVE records_to_commit_unflagged(_, _, _)
records_to_commit_unflagged(ds, rows, j) ==
  IF j > Len(ds) THEN <<>>
  ELSE LET drug_data == ds[j]
           last_db_record == rows[PyStr(drug_data.ID)]
           c == Classification(drug_data, rows)
       IN (IF c = "UNCHANGED" THEN <<>>
           ELSE <<[api_data |-> drug_data, db_data |-> last_db_record, is_new |-> FALSE]>>)
            \o records_to_commit_unflagged(ds, rows, j + 1)

\* Mutant: the entries are built in the reverse order of the candidates.
RECURSIVE records_to_commit_reversed(_, _, _)
records_to_commit_reversed(ds, rows, j) ==
  IF j > Len(ds) THEN <<>>
  ELSE LET drug_data == ds[j]
           last_db_record == rows[PyStr(drug_data.ID)]
           c == Classification(drug_data, rows)
       IN records_to_commit_reversed(ds, rows, j + 1)
            \o (CASE c = "NEW" ->
                      <<[api_data |-> drug_data, db_data |-> NoRow, is_new |-> TRUE]>>
                 [] c = "CHANGED" ->
                      <<[api_data |-> drug_data, db_data |-> last_db_record, is_new |-> FALSE]>>
                 [] OTHER -> <<>>)

\* Mutant: the entry of a CHANGED candidate does not carry its baseline row.
RECURSIVE records_to_commit_without_baseline(_, _, _)
records_to_commit_without_baseline(ds, rows, j) ==
  IF j > Len(ds) THEN <<>>
  ELSE LET drug_data == ds[j]
           c == Classification(drug_data, rows)
       IN (CASE c = "NEW" ->
                  <<[api_data |-> drug_data, db_data |-> NoRow, is_new |-> TRUE]>>
             [] c = "CHANGED" ->
                  <<[api_data |-> drug_data, db_data |-> NoRow, is_new |-> FALSE]>>
             [] OTHER -> <<>>)
            \o records_to_commit_without_baseline(ds, rows, j + 1)

\* The loop that builds records_to_commit.
RECURSIVE records_to_commit_from(_, _, _)
records_to_commit_from(ds, rows, j) ==
  IF j > Len(ds) THEN <<>>
  ELSE LET drug_data == ds[j]
           last_db_record == rows[PyStr(drug_data.ID)]
           c == Classification(drug_data, rows)
       IN (CASE c = "NEW" ->
                  <<[api_data |-> drug_data, db_data |-> NoRow, is_new |-> TRUE]>>
             [] c = "CHANGED" ->
                  <<[api_data |-> drug_data, db_data |-> last_db_record, is_new |-> FALSE]>>
             [] OTHER -> <<>>)
            \o records_to_commit_from(ds, rows, j + 1)

(***************************************************************************)
(* After the last rpc: the diff, up to the notification loop.               *)
(***************************************************************************)
Classify ==
  /\ pc = "load"
  /\ i >= Len(all_ids_to_check)
  /\ records_to_commit' = records_to_commit_from(drugs, last_row_by_id, 1)
  /\ pc' = IF records_to_commit' = <<>> THEN "finally" ELSE "notify"
  /\ i' = 0
  /\ UNCHANGED <<fetchVars, exit, cmp>>
  /\ UNCHANGED <<ext, supabase, history, run, telegram_client, drugs,
                 all_ids_to_check, last_row_by_id, final_records_to_upload,
                 supabase_records, rpcLog, notifyLog, commitLog, gate, clock, prev>>

\* Mutant: the two prices are taken from the wrong records.
get_notification_image_data_swapped(change_info) ==
  [old_price |-> change_info.current.Current_Price,
   new_price |-> change_info.previous.current_price,
   barcode |-> change_info.current.Barcode]

\* The prices and the barcode the notification is rendered from.
get_notification_image_data(change_info) ==
  [old_price |-> change_info.previous.current_price,
   new_price |-> change_info.current.Current_Price,
   barcode |-> change_info.current.Barcode]

\* get_notification_image_data raises ValueError when a price is a string
\* (format ':g'); create_notification_message raises AttributeError when the
\* barcode is not a string (None.strip()).
render_raises(image_data) ==
  \/ image_data.old_price.k = "str"
  \/ image_data.new_price.k = "str"
  \/ image_data.barcode.k # "str"


\* Mutant: the notification is attempted whatever the state of the client.
notifier_assumed_available(client, connected) == TRUE

\* Line 501: a notification is attempted only through a connected client.
notifier_available(client, connected) == client = "client" /\ connected

\* Mutant: the record is queued whatever the notification returned.
queued_always(notification_sent) == TRUE

\* Line 512: the record is queued iff the notification was sent.
queued_after_notify(notification_sent) == notification_sent

\* Mutant: a notified record is inserted at once, inside the notification loop,
\* instead of being queued.
NotifyStepCommitsAtOnce ==
  /\ pc = "notify"
  /\ i < Len(records_to_commit)
  /\ \E connected \in BOOLEAN, sent \in BOOLEAN :
       LET record == records_to_commit[i + 1]
           drug_data == record.api_data
           last_db_record == record.db_data
           id == PyStr(drug_data.ID)
           differs == are_values_different(drug_data.Current_Price,
                                           last_db_record.current_price)
           avail == notifier_available(telegram_client, connected)
           image_data == get_notification_image_data(
                           [previous |-> last_db_record, current |-> drug_data])
           raised == avail /\ render_raises(image_data)
           called == avail /\ ~raised
           notification_sent == called /\ sent
           row_now(d) == [id |-> d.ID, current_price |-> d.Current_Price,
                          previous_price |-> d.Previous_Price,
                          barcode |-> d.Barcode, scraped_at |-> run + 1]
           StoredRowNow(d) == [row_now(d) EXCEPT !.id = PyStr(d.ID)]
           entry(st) == [id |-> id, is_new |-> record.is_new, state |-> st,
                         avail |-> avail, raised |-> raised]
       IN IF record.is_new
          THEN /\ final_records_to_upload' = Append(final_records_to_upload, drug_data)
               /\ gate' = Append(gate, [entry("COMMIT_QUEUED") EXCEPT
                                          !.avail = FALSE, !.raised = FALSE])
               /\ UNCHANGED <<notifyLog, clock, commitLog, history>>
          ELSE IF differs
          THEN /\ notifyLog' =
                    IF called
                    THEN Append(notifyLog, [id |-> id,
                                            old |-> image_data.old_price,
                                            new |-> image_data.new_price,
                                            ok |-> sent, t |-> clock + 1])
                    ELSE notifyLog
               /\ clock' = IF notification_sent THEN clock + 2
                           ELSE IF called THEN clock + 1 ELSE clock
               /\ final_records_to_upload' = final_records_to_upload
               /\ commitLog' =
                    IF notification_sent
                    THEN Append(commitLog, [table |-> "history", op |-> "insert",
                                            rows |-> <<row_now(drug_data)>>,
                                            ok |-> TRUE, t |-> clock + 2])
                    ELSE commitLog
               /\ history' =
                    IF notification_sent
                    THEN Append(history, StoredRowNow(drug_data))
                    ELSE history
               /\ gate' = Append(gate, entry(IF queued_after_notify(notification_sent)
                                             THEN "COMMIT_QUEUED" ELSE "SKIPPED"))
          ELSE /\ gate' = Append(gate, [entry("IGNORED") EXCEPT
                                          !.avail = FALSE, !.raised = FALSE])
               /\ UNCHANGED <<notifyLog, clock, final_records_to_upload, commitLog, history>>
  /\ i' = i + 1
  /\ UNCHANGED <<fetchVars, exit, cmp>>
  /\ UNCHANGED <<ext, supabase, run, pc, telegram_client, drugs,
                 all_ids_to_check, last_row_by_id, records_to_commit,
                 supabase_records, rpcLog, prev>>

(***************************************************************************)
(* One iteration of the notification loop.  `connected` is what             *)
(* is_connected() answers, `sent` what send_telegram_message returns.       *)
\* Mutant: an exception of the rendering is not caught at the record; it ends
\* process_and_commit_changes.
NotifyStepRaiseAborts ==
  /\ pc = "notify"
  /\ i < Len(records_to_commit)
  /\ \E connected \in BOOLEAN, sent \in BOOLEAN :
       LET record == records_to_commit[i + 1]
           drug_data == record.api_data
           last_db_record == record.db_data
           id == PyStr(drug_data.ID)
           differs == are_values_different(drug_data.Current_Price,
                                           last_db_record.current_price)
           avail == notifier_available(telegram_client, connected)
           image_data == get_notification_image_data(
                           [previous |-> last_db_record, current |-> drug_data])
           raised == avail /\ render_raises(image_data)
           called == avail /\ ~raised
           notification_sent == called /\ sent
           entry(st) == [id |-> id, is_new |-> record.is_new, state |-> st,
                         avail |-> avail, raised |-> raised]
       IN /\ pc' = IF ~record.is_new /\ differs /\ raised THEN "finally" ELSE pc
          /\ IF record.is_new
             THEN /\ final_records_to_upload' = Append(final_records_to_upload, drug_data)
                  /\ gate' = Append(gate, [entry("COMMIT_QUEUED") EXCEPT
                                             !.avail = FALSE, !.raised = FALSE])
                  /\ UNCHANGED <<notifyLog, clock>>
             ELSE IF differs
             THEN /\ notifyLog' =
                       IF called
                       THEN Append(notifyLog, [id |-> id,
                                               old |-> image_data.old_price,
                                               new |-> image_data.new_price,
                                               ok |-> sent, t |-> clock + 1])
                       ELSE notifyLog
                  /\ clock' = IF called THEN clock + 1 ELSE clock
                  /\ final_records_to_upload' =
                       IF queued_after_notify(notification_sent)
                       THEN Append(final_records_to_upload, drug_data)
                       ELSE final_records_to_upload
                  /\ gate' = Append(gate, entry(IF queued_after_notify(notification_sent)
                                                THEN "COMMIT_QUEUED" ELSE "SKIPPED"))
             ELSE /\ gate' = Append(gate, [entry("IGNORED") EXCEPT
                                             !.avail = FALSE, !.raised = FALSE])
                  /\ UNCHANGED <<notifyLog, clock, final_records_to_upload>>
  /\ i' = i + 1
  /\ UNCHANGED <<fetchVars, exit, cmp>>
  /\ UNCHANGED <<ext, supabase, history, run, telegram_client, drugs,
                 all_ids_to_check, last_row_by_id, records_to_commit,
                 supabase_records, rpcLog, commitLog, prev>>

(***************************************************************************)
NotifyStep ==
  /\ pc = "notify"
  /\ i < Len(records_to_commit)
  /\ \E connected \in BOOLEAN, sent \in BOOLEAN :
       LET record == records_to_commit[i + 1]
           drug_data == record.api_data
           last_db_record == record.db_data
           id == PyStr(drug_data.ID)
           differs == are_values_different(drug_data.Current_Price,
                                           last_db_record.current_price)
           avail == notifier_available(telegram_client, connected)
           image_data == get_notification_image_data(
                           [previous |-> last_db_record, current |-> drug_data])
           raised == avail /\ render_raises(image_data)
           called == avail /\ ~raised
           notification_sent == called /\ sent
           entry(st) == [id |-> id, is_new |-> record.is_new, state |-> st,
                         avail |-> avail, raised |-> raised]
       IN IF record.is_new
          THEN /\ final_records_to_upload' = Append(final_records_to_upload, drug_data)
               /\ gate' = Append(gate, [entry("COMMIT_QUEUED") EXCEPT
                                          !.avail = FALSE, !.raised = FALSE])
               /\ UNCHANGED <<notifyLog, clock>>
          ELSE IF differs
          THEN /\ notifyLog' =
                    IF called
                    THEN Append(notifyLog, [id |-> id,
                                            old |-> image_data.old_price,
                                            new |-> image_data.new_price,
                                            ok |-> sent, t |-> clock + 1])
                    ELSE notifyLog
               /\ clock' = IF called THEN clock + 1 ELSE clock
               /\ final_records_to_upload' =
                    IF queued_after_notify(notification_sent)
                    THEN Append(final_records_to_upload, drug_data)
                    ELSE final_records_to_upload
               /\ gate' = Append(gate, entry(IF queued_after_notify(notification_sent)
                                             THEN "COMMIT_QUEUED" ELSE "SKIPPED"))
          ELSE /\ gate' = Append(gate, [entry("IGNORED") EXCEPT
                                          !.avail = FALSE, !.raised = FALSE])
               /\ UNCHANGED <<notifyLog, clock, final_records_to_upload>>
  /\ i' = i + 1
  /\ UNCHANGED <<fetchVars, exit, cmp>>
  /\ UNCHANGED <<ext, supabase, history, run, pc, telegram_client, drugs,
                 all_ids_to_check, last_row_by_id, records_to_commit,
                 supabase_records, rpcLog, commitLog, prev>>

\* Mutant: the row takes its current price from the wrong field.
new_row_stale(record, now) ==
  [id |-> record.ID,
   current_price |-> record.Previous_Price,
   previous_price |-> record.Previous_Price,
   barcode |-> record.Barcode,
   scraped_at |-> now]

\* Lines 527-529: the row built from a queued record.
new_row(record, now) ==
  [id |-> record.ID,
   current_price |-> record.Current_Price,
   previous_price |-> record.Previous_Price,
   barcode |-> record.Barcode,
   scraped_at |-> now]

\* Mutant: the rows are built from records_to_commit, not from the commit queue.
PrepareCommitAll ==
  /\ pc = "notify"
  /\ i >= Len(records_to_commit)
  /\ IF final_records_to_upload = <<>>
     THEN /\ pc' = "finally"
          /\ UNCHANGED supabase_records
     ELSE /\ pc' = "commit"
          /\ supabase_records' = [j \in DOMAIN records_to_commit |->
                                    new_row(records_to_commit[j].api_data, run + 1)]
  /\ i' = 0
  /\ UNCHANGED <<fetchVars, exit, cmp>>
  /\ UNCHANGED <<ext, supabase, history, run, telegram_client, drugs,
                 all_ids_to_check, last_row_by_id, records_to_commit,
                 final_records_to_upload, rpcLog, notifyLog, commitLog, gate,
                 clock, prev>>

(***************************************************************************)
(* After the notification loop: the rows of the commit queue, or return.    *)
(***************************************************************************)
PrepareCommit ==
  /\ pc = "notify"
  /\ i >= Len(records_to_commit)
  /\ IF final_records_to_upload = <<>>
     THEN /\ pc' = "finally"
          /\ UNCHANGED supabase_records
     ELSE /\ pc' = "commit"
          /\ supabase_records' = [j \in DOMAIN final_records_to_upload |->
                                    new_row(final_records_to_upload[j], run + 1)]
  /\ i' = 0
  /\ UNCHANGED <<fetchVars, exit, cmp>>
  /\ UNCHANGED <<ext, supabase, history, run, telegram_client, drugs,
                 all_ids_to_check, last_row_by_id, records_to_commit,
                 final_records_to_upload, rpcLog, notifyLog, commitLog, gate,
                 clock, prev>>

\* The row as the history table holds it: the identifier column is text.
StoredRow(r) == [r EXCEPT !.id = PyStr(r.id)]

\* Mutant: the batch is also upserted into a table of current rows.
CommitBatchWithUpsert ==
  /\ pc = "commit"
  /\ i < Len(supabase_records)
  /\ LET batch == SubSeq(supabase_records, i + 1,
                         Min(i + BATCH_INSERT_SIZE, Len(supabase_records)))
     IN \E ok \in BOOLEAN :
          /\ commitLog' = commitLog \o
               <<[table |-> "drugs", op |-> "upsert",
                  rows |-> batch, ok |-> ok, t |-> clock + 1],
                 [table |-> "history", op |-> "insert",
                  rows |-> batch, ok |-> ok, t |-> clock + 1]>>
          /\ history' = IF ok
                        THEN history \o [j \in DOMAIN batch |-> StoredRow(batch[j])]
                        ELSE history
  /\ i' = i + BATCH_INSERT_SIZE
  /\ pc' = IF i' >= Len(supabase_records) THEN "finally" ELSE "commit"
  /\ clock' = clock + 1
  /\ UNCHANGED <<fetchVars, exit, cmp>>
  /\ UNCHANGED <<ext, supabase, run, telegram_client, drugs, all_ids_to_check,
                 last_row_by_id, records_to_commit, final_records_to_upload,
                 supabase_records, rpcLog, notifyLog, gate, prev>>

\* Mutant: after a failed insert the next batch is passed over.
CommitBatchSkipsAfterFailure ==
  /\ pc = "commit"
  /\ i < Len(supabase_records)
  /\ LET batch == SubSeq(supabase_records, i + 1,
                         Min(i + BATCH_INSERT_SIZE, Len(supabase_records)))
     IN \E ok \in BOOLEAN :
          /\ commitLog' = Append(commitLog, [table |-> "history", op |-> "insert",
                                             rows |-> batch, ok |-> ok, t |-> clock + 1])
          /\ history' = IF ok
                        THEN history \o [j \in DOMAIN batch |-> StoredRow(batch[j])]
                        ELSE history
          /\ i' = IF ok THEN i + BATCH_INSERT_SIZE ELSE i + 2 * BATCH_INSERT_SIZE
  /\ pc' = IF i' >= Len(supabase_records) THEN "finally" ELSE "commit"
  /\ clock' = clock + 1
  /\ UNCHANGED <<fetchVars, exit, cmp>>
  /\ UNCHANGED <<ext, supabase, run, telegram_client, drugs, all_ids_to_check,
                 last_row_by_id, records_to_commit, final_records_to_upload,
                 supabase_records, rpcLog, notifyLog, gate, prev>>

\* Mutant: a failed insert ends the commit loop.
CommitBatchAbortsOnFailure ==
  /\ pc = "commit"
  /\ i < Len(supabase_records)
  /\ LET batch == SubSeq(supabase_records, i + 1,
                         Min(i + BATCH_INSERT_SIZE, Len(supabase_records)))
     IN \E ok \in BOOLEAN :
          /\ commitLog' = Append(commitLog, [table |-> "history", op |-> "insert",
                                             rows |-> batch, ok |-> ok, t |-> clock + 1])
          /\ history' = IF ok
                        THEN history \o [j \in DOMAIN batch |-> StoredRow(batch[j])]
                        ELSE history
          /\ pc' = IF ~ok \/ i + BATCH_INSERT_SIZE >= Len(supabase_records)
                   THEN "finally" ELSE "commit"
  /\ i' = i + BATCH_INSERT_SIZE
  /\ clock' = clock + 1
  /\ UNCHANGED <<fetchVars, exit, cmp>>
  /\ UNCHANGED <<ext, supabase, run, telegram_client, drugs, all_ids_to_check,
                 last_row_by_id, records_to_commit, final_records_to_upload,
                 supabase_records, rpcLog, notifyLog, gate, prev>>

(***************************************************************************)
(* One iteration of the commit loop: one insert of a batch, which appends   *)
(* the whole batch or raises and appends nothing.                           *)
(***************************************************************************)
CommitBatch ==
  /\ pc = "commit"
  /\ i < Len(supabase_records)
  /\ LET batch == SubSeq(supabase_records, i + 1,
                         Min(i + BATCH_INSERT_SIZE, Len(supabase_records)))
     IN \E ok \in BOOLEAN :
          /\ commitLog' = Append(commitLog, [table |-> "history", op |-> "insert",
                                             rows |-> batch, ok |-> ok, t |-> clock + 1])
          /\ history' = IF ok
                        THEN history \o [j \in DOMAIN batch |-> StoredRow(batch[j])]
                        ELSE history
  /\ i' = i + BATCH_INSERT_SIZE
  /\ pc' = IF i' >= Len(supabase_records) THEN "finally" ELSE "commit"
  /\ clock' = clock + 1
  /\ UNCHANGED <<fetchVars, exit, cmp>>
  /\ UNCHANGED <<ext, supabase, run, telegram_client, drugs, all_ids_to_check,
                 last_row_by_id, records_to_commit, final_records_to_upload,
                 supabase_records, rpcLog, notifyLog, gate, prev>>

\* What the next run needs to know of this one.
RunSummary ==
  [ran |-> TRUE,
   skipped |-> {g.id : g \in {e \in Range(gate) : e.state = "SKIPPED"}},
   notified |-> {n.id : n \in {e \in Range(notifyLog) : e.ok}},
   commitFailed |-> \E c \in Range(commitLog) : ~c.ok]

(***************************************************************************)
(* The finally clause of main: a connected client is disconnected and the   *)
(* elapsed time is logged; the run is over and its locals are gone.         *)
(***************************************************************************)
Finally ==
  /\ pc = "finally"
  /\ run' = run + 1
  /\ pc' = "idle"
  /\ prev' = RunSummary
  /\ telegram_client' = "none"
  /\ drugs' = <<>>
  /\ all_ids_to_check' = <<>>
  /\ last_row_by_id' = [id \in IdStrs |-> NoRow]
  /\ i' = 0
  /\ records_to_commit' = <<>>
  /\ final_records_to_upload' = <<>>
  /\ supabase_records' = <<>>
  /\ rpcLog' = <<>>
  /\ notifyLog' = <<>>
  /\ commitLog' = <<>>
  /\ gate' = <<>>
  /\ clock' = 0
  /\ exit' = [returned |-> TRUE, logged |-> TRUE, connected |-> FALSE]
  /\ UNCHANGED <<fetchVars, cmp>>
  /\ UNCHANGED <<ext, supabase, history>>


(***************************************************************************)
(* The fetch stage: main creates one task per shard and gathers them.  A    *)
(* task runs fetch_drug_data_for_query; its steps are the segments between  *)
(* its awaits: entering the semaphore, the answer to the request, the end   *)
(* of the backoff sleep.                                                    *)
(***************************************************************************)
\* What the price source holds for a shard, which may be nothing.  The same
\* item can be listed by two shards, and the JSON identifier of an item is a
\* string or a number.
FetchRecord(id) == [id |-> id, price |-> Str("12.50"), barcode |-> Str("b")]

\* Item "2" is listed by shards 2 and 3, with another barcode in shard 3.
ShardData(s) ==
  CASE s = 1 -> <<FetchRecord(Str("1"))>>
    [] s = 2 -> <<FetchRecord(Num(1)), FetchRecord(Str("2"))>>
    [] s = 3 -> <<FetchRecord(Str("3")),
                  [FetchRecord(Str("2")) EXCEPT !.barcode = Str("c")]>>
    [] OTHER -> <<>>

\* The store the run meets: "1" and "2" at another price, "3" at its price.
FetchHistories ==
  {<<InitRow("1", Num(1000)), InitRow("2", Num(1000)), InitRow("3", Num(1250))>>}

\* The start of main: the Telegram client is started or not, and main
\* returns at once when API_URL is not set; else it creates the semaphore
\* and one task per shard.
MainStart ==
  /\ pc = "start"
  /\ \E tg \in {"none", "client"}, connected \in BOOLEAN :
       /\ telegram_client' = tg
       /\ IF ~api_url
          THEN /\ pc' = "returned"
               /\ exit' = [returned |-> TRUE, logged |-> FALSE,
                           connected |-> (tg = "client" /\ connected)]
               /\ UNCHANGED <<task, semaphore>>
          ELSE /\ pc' = "fetch"
               /\ semaphore' = MAX_CONCURRENT_REQUESTS
               /\ task' = [s \in Shards |-> [NoTask EXCEPT !.pc = "acquire"]]
               /\ exit' = NoExit
  /\ UNCHANGED <<ext, supabase, history, run, drugs, all_ids_to_check,
                 last_row_by_id, i, records_to_commit, final_records_to_upload,
                 supabase_records, rpcLog, notifyLog, commitLog, gate, clock,
                 prev, api_url, cmp>>

\* What the fetch steps leave alone.
pipelineVars == <<ext, supabase, history, run, pc, telegram_client, drugs,
                  all_ids_to_check, last_row_by_id, i, records_to_commit,
                  final_records_to_upload, supabase_records, rpcLog, notifyLog,
                  commitLog, gate, clock, prev, api_url, exit, cmp>>

\* Mutant: the request is posted without waiting for a permit.
FetchAcquireWithoutPermit ==
  /\ pc = "fetch"
  /\ \E s \in Shards :
       /\ task[s].pc = "acquire"
       /\ semaphore' = semaphore - 1
       /\ task' = [task EXCEPT ![s].pc = "request"]
  /\ UNCHANGED pipelineVars

\* `async with semaphore`: the task enters when a permit is free and posts
\* its request.
FetchAcquire ==
  /\ pc = "fetch"
  /\ \E s \in Shards :
       /\ task[s].pc = "acquire"
       /\ semaphore > 0
       /\ semaphore' = semaphore - 1
       /\ task' = [task EXCEPT ![s].pc = "request"]
  /\ UNCHANGED pipelineVars

\* Mutant: a payload whose 'data' is not a list is handled as a failed
\* attempt, with a backoff sleep and a retry.
FetchRespondRetriesNonList ==
  /\ pc = "fetch"
  /\ \E s \in Shards :
       /\ task[s].pc = "request"
       /\ semaphore' = semaphore + 1
       /\ \/ task' = [task EXCEPT ![s].pc = "done",
                                  ![s].log = Append(@, "list"),
                                  ![s].result = ShardData(s)]
          \/ task' = [task EXCEPT ![s].pc = "sleep",
                                  ![s].log = Append(@, "nonlist"),
                                  ![s].waits =
                                     Append(@, RETRY_DELAY_SECONDS * (2 ^ task[s].attempt))]
          \/ task' = [task EXCEPT ![s].pc = "sleep",
                                  ![s].log = Append(@, "fail"),
                                  ![s].waits =
                                     Append(@, RETRY_DELAY_SECONDS * (2 ^ task[s].attempt))]
  /\ UNCHANGED pipelineVars

\* The request ends and the permit is given back: a list, a payload whose
\* 'data' is not a list, or an exception (error status, timeout, bad JSON),
\* after which the task sleeps RETRY_DELAY_SECONDS * 2 ** attempt.
FetchRespond ==
  /\ pc = "fetch"
  /\ \E s \in Shards :
       /\ task[s].pc = "request"
       /\ semaphore' = semaphore + 1
       /\ \/ task' = [task EXCEPT ![s].pc = "done",
                                  ![s].log = Append(@, "list"),
                                  ![s].result = ShardData(s)]
          \/ task' = [task EXCEPT ![s].pc = "done",
                                  ![s].log = Append(@, "nonlist"),
                                  ![s].result = <<>>]
          \/ task' = [task EXCEPT ![s].pc = "sleep",
                                  ![s].log = Append(@, "fail"),
                                  ![s].waits =
                                     Append(@, RETRY_DELAY_SECONDS * (2 ^ task[s].attempt))]
  /\ UNCHANGED pipelineVars

\* Mutant: the attempts are not counted, so a failing shard is retried for ever.
FetchWakeUncounted ==
  /\ pc = "fetch"
  /\ \E s \in Shards :
       /\ task[s].pc = "sleep"
       /\ task' = [task EXCEPT ![s].pc = "acquire"]
  /\ UNCHANGED semaphore
  /\ UNCHANGED pipelineVars

\* The sleep ends: the next attempt, or the empty result after the last one.
FetchWake ==
  /\ pc = "fetch"
  /\ \E s \in Shards :
       /\ task[s].pc = "sleep"
       /\ task' = [task EXCEPT
                     ![s].attempt = @ + 1,
                     ![s].pc = IF task[s].attempt + 1 < MAX_RETRIES
                               THEN "acquire" ELSE "done",
                     ![s].result = <<>>]
  /\ UNCHANGED semaphore
  /\ UNCHANGED pipelineVars

\* Mutant: one shard without a successful attempt empties the whole result.
RECURSIVE all_raw_drugs_unless_failed(_, _)
all_raw_drugs_unless_failed(tasks, s) ==
  IF \E t \in Shards : tasks[t].log # <<>> /\ \A j \in DOMAIN tasks[t].log : tasks[t].log[j] = "fail"
  THEN <<>>
  ELSE IF s > NShards THEN <<>>
  ELSE tasks[s].result \o all_raw_drugs_unless_failed(tasks, s + 1)

\* Mutant: the results are put together from the last shard to the first.
RECURSIVE all_raw_drugs_reversed(_, _)
all_raw_drugs_reversed(tasks, s) ==
  IF s > NShards THEN <<>>
  ELSE all_raw_drugs_reversed(tasks, s + 1) \o tasks[s].result

\* all_raw_drugs: the results of the tasks, in the order of the shards.
RECURSIVE all_raw_drugs_from(_, _)
all_raw_drugs_from(tasks, s) ==
  IF s > NShards THEN <<>>
  ELSE tasks[s].result \o all_raw_drugs_from(tasks, s + 1)

\* gather returns when every task is done; main maps and deduplicates the
\* records and calls process_and_commit_changes, which runs up to its first
\* await.
Gather ==
  /\ pc = "fetch"
  /\ \A s \in Shards : task[s].pc = "done"
  /\ ext' = all_raw_drugs_from(task, 1)
  /\ LET unique == unique_drugs_list(ext')
         idset == {PyStr(d.ID) : d \in {e \in Range(unique) : Truthy(e.ID)}}
         enters == unique # <<>> /\ supabase /\ idset # {}
     IN /\ drugs' = unique
        /\ IF enters
           THEN /\ \E ids \in Perms(idset) : all_ids_to_check' = ids
                /\ pc' = "load"
           ELSE /\ all_ids_to_check' = <<>>
                /\ pc' = "finally"
  /\ last_row_by_id' = [id \in IdStrs |-> NoRow]
  /\ i' = 0
  /\ UNCHANGED <<fetchVars, exit, cmp>>
  /\ UNCHANGED <<supabase, history, run, telegram_client, records_to_commit,
                 final_records_to_upload, supabase_records, rpcLog, notifyLog,
                 commitLog, gate, clock, prev>>

Next ==
  \/ StartRun
  \/ LoadBatch
  \/ Classify
  \/ NotifyStep
  \/ PrepareCommit
  \/ CommitBatch
  \/ Finally

Spec == Init /\ [][Next]_vars

(***************************************************************************)
(* One whole execution of main, the fetch stage included.                   *)
(***************************************************************************)
InitFetch ==
  /\ ext = <<>>
  /\ supabase \in BOOLEAN
  /\ history \in FetchHistories
  /\ run = 0
  /\ pc = "start"
  /\ telegram_client = "none"
  /\ drugs = <<>>
  /\ all_ids_to_check = <<>>
  /\ last_row_by_id = [id \in IdStrs |-> NoRow]
  /\ i = 0
  /\ records_to_commit = <<>>
  /\ final_records_to_upload = <<>>
  /\ supabase_records = <<>>
  /\ rpcLog = <<>>
  /\ notifyLog = <<>>
  /\ commitLog = <<>>
  /\ gate = <<>>
  /\ clock = 0
  /\ prev = NoPrev
  /\ api_url \in BOOLEAN
  /\ task = [s \in Shards |-> NoTask]
  /\ semaphore = MAX_CONCURRENT_REQUESTS
  /\ exit = NoExit
  /\ cmp = NoCmp

NextFetch ==
  \/ MainStart
  \/ FetchAcquire
  \/ FetchRespond
  \/ FetchWake
  \/ Gather
  \/ LoadBatch
  \/ Classify
  \/ NotifyStep
  \/ PrepareCommit
  \/ CommitBatch
  \/ Finally

SpecFetch == InitFetch /\ [][NextFetch]_vars

(***************************************************************************)
(* The successive runs, each of which goes on to its end: every await of a  *)
(* run returns, with a result or an exception, and the scheduler starts the *)
(* next run.                                                                *)
(***************************************************************************)
\* What the price source holds over these runs: a price change of "1", with
\* or without barcode, next to a record of "2", with or without price.
LiveExts ==
  {<<[id |-> Str("1"), price |-> Str("12.50"), barcode |-> Str("b")]>>,
   <<[id |-> Str("1"), price |-> Str("12.50"), barcode |-> Str("b")],
     [id |-> Str("2"), price |-> Null, barcode |-> Str("b")]>>,
   <<[id |-> Str("1"), price |-> Str("12.50"), barcode |-> Null],
     [id |-> Str("2"), price |-> Str("12.50"), barcode |-> Str("b")]>>}

InitLive ==
  /\ ext \in LiveExts
  /\ supabase \in BOOLEAN
  /\ history \in InitHistories
  /\ run = 0
  /\ pc = "idle"
  /\ telegram_client = "none"
  /\ drugs = <<>>
  /\ all_ids_to_check = <<>>
  /\ last_row_by_id = [id \in IdStrs |-> NoRow]
  /\ i = 0
  /\ records_to_commit = <<>>
  /\ final_records_to_upload = <<>>
  /\ supabase_records = <<>>
  /\ rpcLog = <<>>
  /\ notifyLog = <<>>
  /\ commitLog = <<>>
  /\ gate = <<>>
  /\ clock = 0
  /\ prev = NoPrev
  /\ api_url = TRUE
  /\ task = [s \in Shards |-> NoTask]
  /\ semaphore = MAX_CONCURRENT_REQUESTS
  /\ exit = NoExit
  /\ cmp = NoCmp

SpecLive == InitLive /\ [][Next]_vars /\ WF_vars(Next)


(***************************************************************************)
(* are_values_different on its own.  The values it is given: None, numbers, *)
(* the float nan, and strings that are decimal numbers (one of them 'NaN',  *)
(* which Decimal parses), ISO timestamps or neither.                        *)
(***************************************************************************)
CmpValues ==
  {Null, Num(1000), Num(1250), NaN,
   Str("10.00"), Str("10.0"), Str(" 10.00"), Str("12.50"), Str("NaN"),
   Str("2024-01-01T00:00:00Z"), Str("2024-01-01T00:00:00+00:00"),
   Str("2024-01-02T00:00:00Z"),
   Str("abc"), Str(" abc")}

InitCompare ==
  /\ ext = <<>>
  /\ supabase = FALSE
  /\ history = <<>>
  /\ run = 0
  /\ pc = "idle"
  /\ telegram_client = "none"
  /\ drugs = <<>>
  /\ all_ids_to_check = <<>>
  /\ last_row_by_id = [id \in IdStrs |-> NoRow]
  /\ i = 0
  /\ records_to_commit = <<>>
  /\ final_records_to_upload = <<>>
  /\ supabase_records = <<>>
  /\ rpcLog = <<>>
  /\ notifyLog = <<>>
  /\ commitLog = <<>>
  /\ gate = <<>>
  /\ clock = 0
  /\ prev = NoPrev
  /\ api_url = TRUE
  /\ task = [s \in Shards |-> NoTask]
  /\ semaphore = MAX_CONCURRENT_REQUESTS
  /\ exit = NoExit
  /\ \E a, b \in CmpValues : cmp = [NoCmp EXCEPT !.pc = "args", !.val1 = a, !.val2 = b]

\* The function is called on the two values in both orders, and on the
\* first value and itself.
Compare ==
  /\ cmp.pc = "args"
  /\ cmp' = [cmp EXCEPT !.pc = "done",
                        !.forth = are_values_different(cmp.val1, cmp.val2),
                        !.back = are_values_different(cmp.val2, cmp.val1),
                        !.self = are_values_different(cmp.val1, cmp.val1)]
  /\ UNCHANGED <<fetchVars, exit, pc>>
  /\ UNCHANGED <<ext, supabase, history, run, telegram_client, drugs,
                 all_ids_to_check, last_row_by_id, i, records_to_commit,
                 final_records_to_upload, supabase_records, rpcLog, notifyLog,
                 commitLog, gate, clock, prev>>

NextCompare == Compare

SpecCompare == InitCompare /\ [][NextCompare]_vars


(***************************************************************************)
(* Vocabulary of the claims.                                                *)
(***************************************************************************)
\* The diff of this run has been computed.
Diffed == pc \in {"notify", "commit"} \/ (pc = "finally" /\ supabase /\ drugs # <<>>)

\* The notification loop of this run is over.
NotifyDone == Diffed /\ Len(gate) = Len(records_to_commit)

\* The run is over (main is in its finally clause).
RunDone == pc = "finally"

\* The candidates of this run.
Candidates == Range(drugs)

IdOf(d) == PyStr(d.ID)

\* The loaded baseline row of a candidate, or NoRow.
BaselineOf(d) == last_row_by_id[IdOf(d)]

\* Exact equality of two prices (both absent, or the same decimal number).
SamePrice(a, b) == a = b

IsNew(d) == BaselineOf(d) = NoRow
IsChanged(d) == ~IsNew(d) /\ ~SamePrice(d.Current_Price, BaselineOf(d).current_price)
IsUnchanged(d) == ~IsNew(d) /\ SamePrice(d.Current_Price, BaselineOf(d).current_price)

\* The calls of notify made for an identifier, and those that succeeded.
NotifyCalls(id) == {j \in DOMAIN notifyLog : notifyLog[j].id = id}
NotifyOk(id) == {j \in NotifyCalls(id) : notifyLog[j].ok}

\* The insert calls whose batch holds a row of an identifier.
InsertCalls(id) ==
  {j \in DOMAIN commitLog : \E r \in Range(commitLog[j].rows) : PyStr(r.id) = id}

\* The rows this run has added to the store for an identifier.
StoredThisRun(id) ==
  {j \in DOMAIN history : history[j].id = id /\ history[j].scraped_at = run + 1}

\* The store as the run found it.
HistoryBefore == SelectSeq(history, LAMBDA r : r.scraped_at <= run)

\* The entry of the run's log for an identifier.
GateOf(id) == {j \in DOMAIN gate : gate[j].id = id}

\* The candidate is in the commit queue.
Queued(d) == \E j \in DOMAIN final_records_to_upload : final_records_to_upload[j] = d

\* The identifier is NEW in this run, or CHANGED and notified with success.
NotifiedOrNew(id) ==
  \/ last_row_by_id[id] = NoRow
  \/ \E d \in Candidates : IdOf(d) = id /\ IsChanged(d) /\ NotifyOk(id) # {}

(***************************************************************************)
(* C1.  Every record in the commit queue, in an insert call or stored by    *)
(* the run is NEW (no baseline row was loaded for it) or CHANGED with a     *)
(* notify call of this run that returned success.                           *)
(***************************************************************************)
C1_QueueOnlyNewOrNotified ==
  /\ \A j \in DOMAIN final_records_to_upload :
       NotifiedOrNew(IdOf(final_records_to_upload[j]))
  /\ \A j \in DOMAIN supabase_records : NotifiedOrNew(PyStr(supabase_records[j].id))
  /\ \A id \in IdStrs :
       (InsertCalls(id) # {} \/ (pc # "idle" /\ StoredThisRun(id) # {}))
         => NotifiedOrNew(id)

\* A run ends with a notified CHANGED record stored and another one skipped.
C1_Witness ==
  /\ RunDone
  /\ \E d, e \in Candidates :
       /\ IsChanged(d) /\ NotifyOk(IdOf(d)) # {} /\ StoredThisRun(IdOf(d)) # {}
       /\ IsChanged(e) /\ NotifyOk(IdOf(e)) = {} /\ NotifyCalls(IdOf(e)) # {}
       /\ ~Queued(e)

(***************************************************************************)
(* C2.  Notification precedes commit: every notify call of a run returned   *)
(* before the first insert call of the run started, and every CHANGED row   *)
(* of an insert call has a successful notify call made before that insert.  *)
(***************************************************************************)
C2_NotifyBeforeCommit ==
  \A c \in DOMAIN commitLog :
    /\ \A n \in DOMAIN notifyLog : notifyLog[n].t < commitLog[c].t
    /\ NotifyDone
    /\ \A r \in Range(commitLog[c].rows) :
         last_row_by_id[PyStr(r.id)] # NoRow =>
           \E n \in NotifyOk(PyStr(r.id)) : notifyLog[n].t < commitLog[c].t

\* Two CHANGED records were notified and both are stored.
C2_Witness ==
  /\ RunDone
  /\ Len(notifyLog) >= 2
  /\ \A d \in Candidates : IsChanged(d) /\ StoredThisRun(IdOf(d)) # {}


\* Every notify call for the candidate carries (baseline price, candidate price).
ArgsRight(d) ==
  \A j \in NotifyCalls(IdOf(d)) :
    /\ notifyLog[j].old = BaselineOf(d).current_price
    /\ notifyLog[j].new = d.Current_Price

C4_StoredIffNotified ==
  RunDone /\ Diffed =>
    \A d \in Candidates :
      IsChanged(d) => (StoredThisRun(IdOf(d)) # {} <=> NotifyOk(IdOf(d)) # {})

\* C4 as amended: at the end of a run, a CHANGED record has been handed to
\* the store (in exactly one insert call) iff its notify call returned
\* success, and it is in the store iff moreover that insert succeeded.
C4_InsertedIffNotified ==
  RunDone /\ Diffed =>
    \A d \in Candidates :
      IsChanged(d) =>
        /\ Cardinality(InsertCalls(IdOf(d))) = (IF NotifyOk(IdOf(d)) # {} THEN 1 ELSE 0)
        /\ Cardinality(StoredThisRun(IdOf(d))) <= 1
        /\ StoredThisRun(IdOf(d)) # {} <=>
             /\ NotifyOk(IdOf(d)) # {}
             /\ \A c \in InsertCalls(IdOf(d)) : commitLog[c].ok

\* A notified CHANGED record whose insert failed, next to a stored one.
C4_Witness ==
  /\ RunDone
  /\ \E d, e \in Candidates :
       /\ IsChanged(d) /\ NotifyOk(IdOf(d)) # {} /\ StoredThisRun(IdOf(d)) = {}
       /\ IsChanged(e) /\ NotifyOk(IdOf(e)) # {} /\ StoredThisRun(IdOf(e)) # {}

(***************************************************************************)
(* C5.  As claimed: at the end of a run, every candidate without a loaded   *)
(* baseline is NEW, has no notify call and is in the store.                 *)
(***************************************************************************)
C5_NewStored ==
  RunDone /\ Diffed =>
    \A d \in Candidates :
      IsNew(d) =>
        /\ \E g \in GateOf(IdOf(d)) : gate[g].is_new
        /\ NotifyCalls(IdOf(d)) = {}
        /\ StoredThisRun(IdOf(d)) # {}

\* C5 as amended: every candidate without a loaded baseline is NEW, has no
\* notify call and is queued whatever the notifier does; it is handed to the
\* store in exactly one insert call and is in the store iff that insert
\* succeeded.
C5_NewInserted ==
  /\ NotifyDone =>
       \A d \in Candidates :
         IsNew(d) =>
           /\ \E g \in GateOf(IdOf(d)) : gate[g].is_new /\ gate[g].state = "COMMIT_QUEUED"
           /\ NotifyCalls(IdOf(d)) = {}
           /\ Queued(d)
  /\ RunDone /\ Diffed =>
       \A d \in Candidates :
         IsNew(d) =>
           /\ Cardinality(InsertCalls(IdOf(d))) = 1
           /\ StoredThisRun(IdOf(d)) # {} <=> \A c \in InsertCalls(IdOf(d)) : commitLog[c].ok

\* Without a Telegram client, a NEW record is stored while a CHANGED one is
\* skipped.
C5_Witness ==
  /\ RunDone
  /\ telegram_client = "none"
  /\ \E d, e \in Candidates :
       /\ IsNew(d) /\ StoredThisRun(IdOf(d)) # {}
       /\ IsChanged(e) /\ ~Queued(e)

(***************************************************************************)
(* C6.  A candidate whose loaded baseline has the same price is UNCHANGED:  *)
(* it never enters records_to_commit, has no notify call and is in no       *)
(* insert call.                                                             *)
(***************************************************************************)
C6_UnchangedIgnored ==
  Diffed =>
    \A d \in Candidates :
      IsUnchanged(d) =>
        /\ \A j \in DOMAIN records_to_commit : records_to_commit[j].api_data # d
        /\ GateOf(IdOf(d)) = {}
        /\ NotifyCalls(IdOf(d)) = {}
        /\ ~Queued(d)
        /\ InsertCalls(IdOf(d)) = {}
        /\ StoredThisRun(IdOf(d)) = {}

\* An UNCHANGED record (12.50 against 12.50) in a run that notified and
\* stored another record.
C6_Witness ==
  /\ RunDone
  /\ \E d, e \in Candidates :
       /\ IsUnchanged(d) /\ d.Current_Price = Num(1250)
       /\ IsChanged(e) /\ NotifyOk(IdOf(e)) # {} /\ StoredThisRun(IdOf(e)) # {}


\* The baseline rpc of this run returned the batch of the identifier.
Loaded(id) == \E q \in Range(rpcLog) : id \in Range(q.ids) /\ q.ok

(***************************************************************************)
(* C7.  As claimed: a run that follows another run against the same         *)
(* external data makes no notify call and no insert call.                   *)
(***************************************************************************)
C7_SecondRunSilent ==
  RunDone /\ prev.ran => notifyLog = <<>> /\ commitLog = <<>>

\* C7 as amended: a run that follows another run against the same external
\* data makes no notify call and no insert call, provided the earlier run
\* skipped no CHANGED record and lost no insert batch and the later run
\* loaded all its baseline batches.
C7_SecondRunSilentAfterCleanRun ==
  (/\ prev.ran
   /\ prev.skipped = {}
   /\ ~prev.commitFailed
   /\ \A q \in Range(rpcLog) : q.ok)
    => /\ notifyLog = <<>>
       /\ commitLog = <<>>
       /\ final_records_to_upload = <<>>
       /\ Diffed => records_to_commit = <<>>

\* The second run is over and silent; the first one notified a change and
\* stored it, so that the second run found it as the baseline.
C7_Witness ==
  /\ RunDone /\ Diffed
  /\ prev.ran /\ prev.skipped = {} /\ ~prev.commitFailed
  /\ rpcLog # <<>> /\ \A q \in Range(rpcLog) : q.ok
  /\ notifyLog = <<>> /\ commitLog = <<>>
  /\ \E d \in Candidates :
       /\ IdOf(d) \in prev.notified
       /\ BaselineOf(d).scraped_at = run
       /\ BaselineOf(d).current_price = Num(1250)

(***************************************************************************)
(* C8.  As claimed: the row handed to the store for a CHANGED record        *)
(* carries the candidate's price as current price and the baseline's price  *)
(* as previous price.                                                       *)
(***************************************************************************)
C8_RowCarriesBothPrices ==
  \A c \in DOMAIN commitLog :
    \A r \in Range(commitLog[c].rows) :
      \A d \in Candidates :
        IdOf(d) = PyStr(r.id) /\ IsChanged(d) =>
          /\ r.current_price = d.Current_Price
          /\ r.previous_price = BaselineOf(d).current_price

\* If row r of insert call c replaces a persisted baseline of another price,
\* a notify call for that change returned success before the insert.
NotifiedBefore(id, r, c) ==
  LET b == Latest(HistoryBefore, id)
  IN b # NoRow /\ ~SamePrice(r.current_price, b.current_price) =>
       \E n \in NotifyOk(id) :
         /\ notifyLog[n].old = b.current_price
         /\ notifyLog[n].new = r.current_price
         /\ notifyLog[n].t < commitLog[c].t

(***************************************************************************)
(* C9.  As claimed: whenever a run hands to the store a record of an        *)
(* identifier that had a persisted baseline with a different price, a       *)
(* notify call for that identifier and that price change returned success   *)
(* earlier in the run.                                                      *)
(***************************************************************************)
C9_CommittedImpliesNotified ==
  \A c \in DOMAIN commitLog :
    \A r \in Range(commitLog[c].rows) : NotifiedBefore(PyStr(r.id), r, c)

\* C9 as amended: the same, for the identifiers whose baseline batch the
\* run's baseline fetch returned; an identifier whose batch failed is handed
\* to the store as NEW, without notification.
C9_CommittedImpliesNotifiedWhenLoaded ==
  \A c \in DOMAIN commitLog :
    \A r \in Range(commitLog[c].rows) :
      /\ Loaded(PyStr(r.id)) => NotifiedBefore(PyStr(r.id), r, c)
      /\ ~Loaded(PyStr(r.id)) => NotifyCalls(PyStr(r.id)) = {}

\* A run with a failed insert stored a notified change of 10.00 to 12.50.
C9_Witness ==
  /\ RunDone
  /\ \E c \in Range(commitLog) : ~c.ok
  /\ \E d \in Candidates :
       /\ Loaded(IdOf(d))
       /\ Latest(HistoryBefore, IdOf(d)).current_price = Num(1000)
       /\ d.Current_Price = Num(1250)
       /\ NotifyOk(IdOf(d)) # {}
       /\ StoredThisRun(IdOf(d)) # {}

\* A CHANGED record whose notification was not delivered leaves the persisted
\* baseline of its identifier as the run found it.
BaselineKept ==
  RunDone /\ Diffed =>
    \A d \in Candidates :
      IsChanged(d) /\ NotifyOk(IdOf(d)) = {} =>
        /\ Latest(history, IdOf(d)) = BaselineOf(d)
        /\ Latest(history, IdOf(d)) = Latest(HistoryBefore, IdOf(d))
        /\ IdOf(d) \in RunSummary.skipped

\* The identifier is CHANGED in this run and went through the notification step.
Renotified(id) ==
  \E d \in Candidates :
    /\ IdOf(d) = id
    /\ IsChanged(d)
    /\ \E g \in GateOf(id) :
         /\ ~gate[g].is_new
         /\ gate[g].state \in {"COMMIT_QUEUED", "SKIPPED"}
         /\ (NotifyCalls(id) # {}) <=> (gate[g].avail /\ ~gate[g].raised)

(***************************************************************************)
(* C10.  As claimed: a CHANGED record whose notification was not delivered  *)
(* leaves the persisted baseline of its identifier as it was, and in the    *)
(* next run it is classified CHANGED again and goes through the             *)
(* notification step again.                                                 *)
(***************************************************************************)
C10_SkippedIsRetried ==
  /\ BaselineKept
  /\ RunDone /\ prev.ran => \A id \in prev.skipped : Renotified(id)

\* C10 as amended: the same, the next run being one whose baseline fetch
\* returned the batch of the identifier; the notify call is made when the
\* Telegram client is connected and the message renders.
C10_SkippedIsRetriedWhenLoaded ==
  /\ BaselineKept
  /\ RunDone /\ prev.ran =>
       \A id \in prev.skipped : Loaded(id) => Renotified(id)

\* A record skipped by the first run is notified with success by the second.
C10_Witness ==
  /\ RunDone
  /\ prev.ran
  /\ \E id \in prev.skipped : Loaded(id) /\ NotifyOk(id) # {}


\* The run had no usable notifier for the entry of its log: no client, or a
\* client that was not connected.
Unavailable(g) == telegram_client = "none" \/ ~g.avail

\* The run is over and had no usable notifier: no client at all, or a client
\* that was not connected whenever a CHANGED record asked for it.
RunUnavailable ==
  /\ RunDone /\ Diffed
  /\ \/ telegram_client = "none"
     \/ /\ \E j \in DOMAIN gate : ~gate[j].is_new
        /\ \A j \in DOMAIN gate : ~gate[j].is_new => ~gate[j].avail

\* No notify call was made for the CHANGED records the run met without a
\* usable notifier; they are SKIPPED, not queued, not inserted, not stored.
UnavailableSkipsChanged ==
  \A j \in DOMAIN gate :
    (~gate[j].is_new /\ Unavailable(gate[j])) =>
      /\ gate[j].state = "SKIPPED"
      /\ NotifyCalls(gate[j].id) = {}
      /\ \A d \in Candidates : IdOf(d) = gate[j].id => ~Queued(d)
      /\ InsertCalls(gate[j].id) = {}
      /\ StoredThisRun(gate[j].id) = {}

(***************************************************************************)
(* C11.  As claimed: when the run has no Telegram client, or the client is  *)
(* not connected, every CHANGED record ends SKIPPED without a notify call   *)
(* and without being committed, and the NEW records of the run are in the   *)
(* store when the run is over.                                              *)
(***************************************************************************)
C11_ChangedSkippedNewStored ==
  /\ UnavailableSkipsChanged
  /\ RunUnavailable =>
       \A d \in Candidates : IsNew(d) => StoredThisRun(IdOf(d)) # {}

\* C11 as amended: the same for the CHANGED records; the NEW records of the
\* run are queued and handed to the store in exactly one insert call, and
\* are in the store iff that insert succeeded.
C11_ChangedSkippedNewInserted ==
  /\ UnavailableSkipsChanged
  /\ RunUnavailable =>
       \A d \in Candidates :
         IsNew(d) =>
           /\ Queued(d)
           /\ Cardinality(InsertCalls(IdOf(d))) = 1
           /\ \A c \in InsertCalls(IdOf(d)) :
                commitLog[c].ok <=> StoredThisRun(IdOf(d)) # {}

\* A run without a connected client skipped a CHANGED record and stored a
\* NEW one.
C11_Witness ==
  /\ RunUnavailable
  /\ \E j \in DOMAIN gate : gate[j].state = "SKIPPED" /\ telegram_client = "client"
  /\ \E d \in Candidates : IsNew(d) /\ StoredThisRun(IdOf(d)) # {}


\* main has gathered the shard results and deduplicated the records.
Gathered == pc \in {"load", "notify", "commit", "finally"}

\* The identifiers the shards returned, as the downstream stages read them.
ReturnedIds == {PyStr(ext[j].id) : j \in {h \in DOMAIN ext : Truthy(ext[h].id)}}

\* The records passed downstream for an identifier, by position.
PassedFor(id) == {j \in DOMAIN drugs : IdOf(drugs[j]) = id}

\* The rows handed to the store for an identifier: <<insert call, position>>.
RowsFor(id) ==
  {cj \in UNION {{<<c, j>> : j \in DOMAIN commitLog[c].rows} : c \in DOMAIN commitLog} :
     PyStr(commitLog[cj[1]].rows[cj[2]].id) = id}

(***************************************************************************)
(* C12.  After deduplication exactly one record is passed downstream for    *)
(* every identifier the shards returned, the identifier occurs once in the  *)
(* baseline-load list, and the run makes at most one notify call and hands  *)
(* at most one row to the store per identifier.                             *)
(***************************************************************************)
C12_OneRecordPerIdentifier ==
  Gathered =>
    /\ \A id \in ReturnedIds : Cardinality(PassedFor(id)) = 1
    /\ \A a, b \in DOMAIN all_ids_to_check :
         a # b => all_ids_to_check[a] # all_ids_to_check[b]
    /\ \A id \in IdStrs :
         /\ Cardinality(NotifyCalls(id)) <= 1
         /\ Cardinality(RowsFor(id)) <= 1


\* The tasks whose HTTP request is in flight.
InFlight == {s \in Shards : task[s].pc = "request"}

(***************************************************************************)
(* C13.  At every point of every interleaving of the shard-fetch tasks at   *)
(* most MAX_CONCURRENT_REQUESTS requests are in flight, and the permits     *)
(* taken are exactly those of the requests in flight.                       *)
(***************************************************************************)
C13_InFlightAtMostLimit ==
  /\ Cardinality(InFlight) <= MAX_CONCURRENT_REQUESTS
  /\ pc = "fetch" => semaphore = MAX_CONCURRENT_REQUESTS - Cardinality(InFlight)

\* Every permit is taken, one of them by a retry, and a task waits for one.
C13_Witness ==
  /\ Cardinality(InFlight) = MAX_CONCURRENT_REQUESTS
  /\ \E s \in InFlight : task[s].attempt > 0
  /\ \E s \in Shards : task[s].pc = "acquire"


\* The task made its last attempt and none succeeded.
Exhausted(s) ==
  /\ task[s].pc = "done"
  /\ \A j \in DOMAIN task[s].log : task[s].log[j] = "fail"

\* The task ended with a list of records.
Fetched(s) ==
  /\ task[s].pc = "done"
  /\ task[s].log # <<>>
  /\ task[s].log[Len(task[s].log)] = "list"

\* A record a shard returned has gone through the stages the run reached:
\* it has a candidate after normalization and deduplication; once the diff
\* is made the candidate is UNCHANGED or in the run's log; and once the run
\* is over a queued candidate is in an insert call.
ReachedStages(r) ==
  LET id == PyStr(r.id)
  IN /\ \E d \in Candidates : IdOf(d) = id
     /\ (NotifyDone /\ supabase) =>
          \E d \in Candidates :
            /\ IdOf(d) = id
            /\ IsUnchanged(d) \/ GateOf(id) # {}
     /\ (RunDone /\ supabase) =>
          \A j \in GateOf(id) :
            gate[j].state = "COMMIT_QUEUED" => InsertCalls(id) # {}

(***************************************************************************)
(* C14.  A shard is requested at most MAX_RETRIES times and not again after *)
(* an attempt that succeeded; a shard whose attempts all fail ends with the *)
(* empty result after MAX_RETRIES attempts; and the run goes on with the    *)
(* records of the other shards, which reach normalization, diff and commit. *)
(***************************************************************************)
C14_RetriesBoundedShardIsolated ==
  /\ \A s \in Shards :
       /\ Len(task[s].log) <= MAX_RETRIES
       /\ \A j \in DOMAIN task[s].log :
            task[s].log[j] # "fail" => (j = Len(task[s].log) /\ task[s].pc = "done")
       /\ Exhausted(s) => (Len(task[s].log) = MAX_RETRIES /\ task[s].result = <<>>)
  /\ Gathered =>
       \A s \in Shards :
         Fetched(s) =>
           \A j \in DOMAIN task[s].result :
             /\ \E h \in DOMAIN ext : ext[h] = task[s].result[j]
             /\ ReachedStages(task[s].result[j])

\* One shard failed at every attempt, another succeeded at its second
\* attempt, and a record of a shard that succeeded is in the store.
C14_Witness ==
  /\ RunDone
  /\ \E s \in Shards : Exhausted(s)
  /\ \E s \in Shards : Fetched(s) /\ Len(task[s].log) = 2
  /\ \E s \in Shards :
       /\ Fetched(s)
       /\ \E j \in DOMAIN task[s].result :
            StoredThisRun(PyStr(task[s].result[j].id)) # {}


(***************************************************************************)
(* C15.  An answer whose 'data' field is not a list ends the task with the  *)
(* empty result: it is the last attempt of the shard, whatever attempts are *)
(* left, and no backoff wait follows it.                                    *)
(***************************************************************************)
C15_NonListIsFinal ==
  \A s \in Shards :
    \A j \in DOMAIN task[s].log :
      task[s].log[j] = "nonlist" =>
        /\ j = Len(task[s].log)
        /\ task[s].pc = "done"
        /\ task[s].result = <<>>
        /\ task[s].attempt = j - 1
        /\ Len(task[s].waits) = j - 1

\* The run went on after a shard answered with a non-list at its first
\* attempt and another after one failed attempt.
C15_Witness ==
  /\ Gathered
  /\ \E s \in Shards : task[s].log = <<"nonlist">>
  /\ \E s \in Shards : task[s].log = <<"fail", "nonlist">>


\* The rpc calls whose batch holds an identifier.
RpcCalls(id) == {k \in DOMAIN rpcLog : id \in Range(rpcLog[k].ids)}

(***************************************************************************)
(* C16.  The baseline loader takes the deduplicated identifiers, each once, *)
(* in consecutive batches of BATCH_RPC_SIZE: call k carries identifiers     *)
(* (k-1)*BATCH_RPC_SIZE+1 .. k*BATCH_RPC_SIZE of the list; when the loop is *)
(* over it has made ceil(n / BATCH_RPC_SIZE) calls, every one but the last  *)
(* of exactly BATCH_RPC_SIZE identifiers, and every identifier is in        *)
(* exactly one of them.                                                     *)
(***************************************************************************)
C16_BaselineBatches ==
  LET n == Len(all_ids_to_check)
  IN /\ Gathered =>
          /\ Range(all_ids_to_check) = {IdOf(d) : d \in Candidates} \/ ~supabase
          /\ \A a, b \in DOMAIN all_ids_to_check :
               a # b => all_ids_to_check[a] # all_ids_to_check[b]
     /\ \A k \in DOMAIN rpcLog :
          rpcLog[k].ids = SubSeq(all_ids_to_check, (k - 1) * BATCH_RPC_SIZE + 1,
                                 Min(k * BATCH_RPC_SIZE, n))
     /\ Diffed =>
          /\ Len(rpcLog) = (n + BATCH_RPC_SIZE - 1) \div BATCH_RPC_SIZE
          /\ \A k \in 1..(Len(rpcLog) - 1) : Len(rpcLog[k].ids) = BATCH_RPC_SIZE
          /\ \A id \in Range(all_ids_to_check) : Cardinality(RpcCalls(id)) = 1

\* Three identifiers were loaded in a full batch followed by a partial one.
C16_Witness ==
  /\ Diffed
  /\ Len(all_ids_to_check) = BATCH_RPC_SIZE + 1
  /\ Len(rpcLog) = 2
  /\ Len(rpcLog[1].ids) = BATCH_RPC_SIZE
  /\ Len(rpcLog[2].ids) = 1


\* The diff flagged the candidate is_new.
FlaggedNew(d) ==
  \E j \in DOMAIN records_to_commit :
    /\ records_to_commit[j].api_data = d
    /\ records_to_commit[j].is_new
    /\ records_to_commit[j].db_data = NoRow

(***************************************************************************)
(* C17.  A baseline batch that fails does not end the run: every batch is   *)
(* still requested, the identifiers of a failed batch have no baseline and  *)
(* are classified NEW, whatever the store holds for them, and the           *)
(* identifiers of a batch that succeeded have the latest row of the store   *)
(* as baseline.                                                             *)
(***************************************************************************)
C17_FailedBatchIsNewOthersKept ==
  Diffed =>
    /\ \A id \in Range(all_ids_to_check) : RpcCalls(id) # {}
    /\ \A d \in Candidates :
         /\ ~Loaded(IdOf(d)) => (BaselineOf(d) = NoRow /\ FlaggedNew(d))
         /\ Loaded(IdOf(d)) => BaselineOf(d) = Latest(HistoryBefore, IdOf(d))

\* The first batch failed and the second was still fetched: an identifier of
\* the first, which has a row in the store, is NEW, and an identifier of
\* the second has its row as baseline.
C17_Witness ==
  /\ Diffed
  /\ Len(rpcLog) = 2
  /\ ~rpcLog[1].ok
  /\ rpcLog[2].ok
  /\ \E d \in Candidates :
       /\ IdOf(d) \in Range(rpcLog[1].ids)
       /\ Latest(HistoryBefore, IdOf(d)) # NoRow
       /\ FlaggedNew(d)
  /\ \E d \in Candidates :
       /\ IdOf(d) \in Range(rpcLog[2].ids)
       /\ BaselineOf(d) # NoRow


\* The number of rows in the batches whose insert succeeded, up to call k.
RECURSIVE InsertedCount(_)
InsertedCount(k) ==
  IF k = 0 THEN 0
  ELSE InsertedCount(k - 1) + (IF commitLog[k].ok THEN Len(commitLog[k].rows) ELSE 0)

\* The insert calls whose batch covers position j of the queue.
BatchesOf(j) ==
  {k \in DOMAIN commitLog :
     (k - 1) * BATCH_INSERT_SIZE < j /\ j <= k * BATCH_INSERT_SIZE}

(***************************************************************************)
(* C18.  The commit writer builds one row per queued record, in queue       *)
(* order, and attempts the rows in consecutive batches of at most           *)
(* BATCH_INSERT_SIZE, each once: when the run is over every queued record   *)
(* is in exactly one attempted batch, whatever batches failed, and the      *)
(* store has gained the rows of every batch that succeeded.                 *)
(***************************************************************************)
C18_EveryBatchAttemptedOnce ==
  LET m == Len(supabase_records)
  IN /\ pc = "commit" \/ (RunDone /\ final_records_to_upload # <<>>) =>
          /\ m = Len(final_records_to_upload)
          /\ \A j \in 1..m : supabase_records[j].id = final_records_to_upload[j].ID
     /\ \A k \in DOMAIN commitLog :
          /\ commitLog[k].rows = SubSeq(supabase_records, (k - 1) * BATCH_INSERT_SIZE + 1,
                                        Min(k * BATCH_INSERT_SIZE, m))
          /\ Len(commitLog[k].rows) \in 1..BATCH_INSERT_SIZE
     /\ Len(history) = Len(HistoryBefore) + InsertedCount(Len(commitLog))
     /\ RunDone =>
          /\ Len(commitLog) = (m + BATCH_INSERT_SIZE - 1) \div BATCH_INSERT_SIZE
          /\ \A j \in 1..m : Cardinality(BatchesOf(j)) = 1

\* Of three batches the first and the last failed; the second was attempted
\* all the same and its rows are in the store.
C18_Witness ==
  /\ RunDone
  /\ Len(commitLog) = 3
  /\ ~commitLog[1].ok
  /\ commitLog[2].ok
  /\ ~commitLog[3].ok
  /\ Len(history) = Len(HistoryBefore) + Len(commitLog[2].rows)


\* The commit batches of the run, by number, and the rows of a batch.
CommitBatches ==
  1..((Len(supabase_records) + BATCH_INSERT_SIZE - 1) \div BATCH_INSERT_SIZE)

BatchRows(b) ==
  SubSeq(supabase_records, (b - 1) * BATCH_INSERT_SIZE + 1,
         Min(b * BATCH_INSERT_SIZE, Len(supabase_records)))

\* The writes of a kind the run made with the rows of a batch.
WritesOf(b, op) ==
  {c \in DOMAIN commitLog : commitLog[c].op = op /\ commitLog[c].rows = BatchRows(b)}

C20_AlwaysLogsAndDisconnects ==
  exit.returned => (exit.logged /\ ~exit.connected)


\* The entries of records_to_commit made for a candidate.
EntriesOf(d) == {j \in DOMAIN records_to_commit : records_to_commit[j].api_data = d}

\* The diff took the candidate as CHANGED against its loaded baseline.
FlaggedChanged(d) ==
  \E j \in EntriesOf(d) :
    /\ ~records_to_commit[j].is_new
    /\ records_to_commit[j].db_data = BaselineOf(d)

(***************************************************************************)
(* C21.  The diff looks at the presence of a baseline and at the price      *)
(* only: a candidate without a loaded baseline is NEW; a candidate with a   *)
(* baseline is CHANGED exactly when are_values_different(candidate price,   *)
(* baseline price) holds, which is the case for an absent price against a   *)
(* present one and not for two absent prices; a candidate that has the      *)
(* price of its baseline has no entry, whatever its other fields are.       *)
(***************************************************************************)
C21_DiffByBaselineAndPrice ==
  Diffed =>
    \A d \in Candidates :
      LET api_price == d.Current_Price
          db_price == BaselineOf(d).current_price
      IN /\ Cardinality(EntriesOf(d)) <= 1
         /\ IsNew(d) => (FlaggedNew(d) /\ ~FlaggedChanged(d))
         /\ ~IsNew(d) =>
              /\ ~FlaggedNew(d)
              /\ FlaggedChanged(d) <=> are_values_different(api_price, db_price)
              /\ (api_price = Null) # (db_price = Null) => FlaggedChanged(d)
              /\ (api_price = Null /\ db_price = Null) => EntriesOf(d) = {}
              /\ SamePrice(api_price, db_price) => EntriesOf(d) = {}

\* A candidate without price is CHANGED against a baseline of 10.00, and a
\* candidate without barcode is UNCHANGED against a baseline of the same
\* price that has one.
C21_Witness ==
  /\ Diffed
  /\ \E d, e \in Candidates :
       /\ ~IsNew(d) /\ d.Current_Price = Null
       /\ BaselineOf(d).current_price = Num(1000) /\ FlaggedChanged(d)
       /\ ~IsNew(e) /\ e.Current_Price = Num(1250) /\ e.Barcode = Null
       /\ BaselineOf(e).barcode = Str("b") /\ EntriesOf(e) = {}


(***************************************************************************)
(* C22.  Every entry that goes through the notification step as CHANGED     *)
(* carries a baseline row, the one loaded for its identifier; every entry   *)
(* flagged is_new carries none and is queued without being rendered or      *)
(* notified: each notify call of the run is for a CHANGED entry.            *)
(***************************************************************************)
C22_ChangedHasBaselineNewNotNotified ==
  /\ \A j \in DOMAIN records_to_commit :
       LET r == records_to_commit[j]
           id == IdOf(r.api_data)
       IN /\ ~r.is_new =>
               /\ r.db_data # NoRow
               /\ r.db_data = last_row_by_id[id]
               /\ r.db_data.id = id
          /\ r.is_new =>
               /\ r.db_data = NoRow
               /\ NotifyCalls(id) = {}
               /\ j <= Len(gate) =>
                    /\ gate[j].state = "COMMIT_QUEUED"
                    /\ ~gate[j].avail
                    /\ ~gate[j].raised
  /\ \A n \in DOMAIN notifyLog :
       \E j \in DOMAIN records_to_commit :
         /\ IdOf(records_to_commit[j].api_data) = notifyLog[n].id
         /\ ~records_to_commit[j].is_new
         /\ records_to_commit[j].db_data.current_price = notifyLog[n].old

\* The notification loop went over a NEW entry, queued without a call, and a
\* CHANGED entry, notified with the price of its baseline row.
C22_Witness ==
  /\ NotifyDone
  /\ telegram_client = "client"
  /\ \E j, h \in DOMAIN records_to_commit :
       /\ records_to_commit[j].is_new
       /\ Queued(records_to_commit[j].api_data)
       /\ ~records_to_commit[h].is_new
       /\ records_to_commit[h].db_data.current_price = Num(1000)
       /\ NotifyOk(IdOf(records_to_commit[h].api_data)) # {}


\* The attempts of a task that failed, by index (0-based).
FailedAttempts(s) == {j - 1 : j \in {h \in DOMAIN task[s].log : task[s].log[h] = "fail"}}

(***************************************************************************)
(* C23.  Exponential backoff: the wait that follows the failed attempt k    *)
(* (0-based) is RETRY_DELAY_SECONDS * 2^k, and a wait is made only before   *)
(* another attempt: a task never makes more than MAX_RETRIES - 1 waits, and *)
(* a task whose MAX_RETRIES attempts all failed has made MAX_RETRIES - 1    *)
(* waits when it returns its empty result.                                  *)
(***************************************************************************)
C23_BackoffOnlyBetweenAttempts ==
  \A s \in Shards :
    /\ \A k \in DOMAIN task[s].waits :
         /\ (k - 1) \in FailedAttempts(s)
         /\ task[s].waits[k] = RETRY_DELAY_SECONDS * (2 ^ (k - 1))
    /\ Len(task[s].waits) <= MAX_RETRIES - 1
    /\ Exhausted(s) => Len(task[s].waits) = MAX_RETRIES - 1


\* a[ja..] can be read in b[jb..], in order and with gaps.
RECURSIVE IsSubSeqFrom(_, _, _, _)
IsSubSeqFrom(a, b, ja, jb) ==
  IF ja > Len(a) THEN TRUE
  ELSE IF jb > Len(b) THEN FALSE
  ELSE IF a[ja] = b[jb] THEN IsSubSeqFrom(a, b, ja + 1, jb + 1)
  ELSE IsSubSeqFrom(a, b, ja, jb + 1)

IsSubSeq(a, b) == IsSubSeqFrom(a, b, 1, 1)

\* The identifiers of the candidates and of the notify calls, in order.
CandidateIds == [j \in DOMAIN drugs |-> IdOf(drugs[j])]
NotifiedIds == [n \in DOMAIN notifyLog |-> notifyLog[n].id]

(***************************************************************************)
(* C24.  The CHANGED records are notified one at a time: a notify call      *)
(* starts after the one before it has returned and none is outstanding when *)
(* an iteration ends; the calls are made in the order of the deduplicated   *)
(* candidate list; and the commit queue and the rows built from it keep the *)
(* order of that list.                                                      *)
(***************************************************************************)
C24_OneAtATimeInCandidateOrder ==
  /\ \A n, m \in DOMAIN notifyLog : n < m => notifyLog[n].t < notifyLog[m].t
  /\ pc = "notify" => Len(notifyLog) <= i
  /\ IsSubSeq(NotifiedIds, CandidateIds)
  /\ IsSubSeq(final_records_to_upload, drugs)
  /\ IsSubSeq([j \in DOMAIN supabase_records |-> PyStr(supabase_records[j].id)],
              CandidateIds)

\* Three calls were made in the order of the candidates; the second was not
\* delivered, and the queue holds the first and the third candidate, in
\* that order.
C24_Witness ==
  /\ NotifyDone
  /\ Len(drugs) >= 3
  /\ Len(notifyLog) = 3
  /\ notifyLog[1].ok /\ ~notifyLog[2].ok /\ notifyLog[3].ok
  /\ final_records_to_upload = <<drugs[1], drugs[3]>>


\* The notification of the entry failed: its rendering raised, or its notify
\* call raised or was not delivered.
NotifyFailed(j) ==
  /\ ~gate[j].is_new
  /\ \/ gate[j].raised
     \/ \E n \in NotifyCalls(gate[j].id) : ~notifyLog[n].ok

\* The entry was handled as if no entry before it had failed.
HandledNormally(h) ==
  LET id == gate[h].id
  IN /\ gate[h].is_new => gate[h].state = "COMMIT_QUEUED"
     /\ (~gate[h].is_new /\ gate[h].avail /\ ~gate[h].raised) => NotifyCalls(id) # {}
     /\ (~gate[h].is_new /\ NotifyOk(id) # {}) => gate[h].state = "COMMIT_QUEUED"
     /\ gate[h].state = "COMMIT_QUEUED" =>
          \E d \in Candidates : IdOf(d) = id /\ Queued(d)

(***************************************************************************)
(* C25.  An exception raised while the notification of a CHANGED record is  *)
(* rendered or sent stays at that record: the record is SKIPPED and is not  *)
(* committed; the loop goes on over every later record, which is notified   *)
(* and queued as usual; and the commit stage runs on the queue, so that     *)
(* every queued record is in an insert call when the run is over.           *)
(***************************************************************************)
C25_NotifyExceptionContained ==
  /\ \A j \in DOMAIN gate :
       NotifyFailed(j) =>
         /\ gate[j].state = "SKIPPED"
         /\ \A d \in Candidates : IdOf(d) = gate[j].id => ~Queued(d)
         /\ InsertCalls(gate[j].id) = {}
         /\ StoredThisRun(gate[j].id) = {}
  /\ (pc = "commit" \/ (RunDone /\ Diffed)) => Len(gate) = Len(records_to_commit)
  /\ \A j, h \in DOMAIN gate : (j < h /\ NotifyFailed(j)) => HandledNormally(h)
  /\ (RunDone /\ Diffed) =>
       \A d \in Candidates : Queued(d) => Cardinality(InsertCalls(IdOf(d))) = 1

\* The rendering of the first CHANGED record raised; the second was notified
\* and is in the store.
C25_Witness ==
  /\ RunDone
  /\ Len(gate) = 2
  /\ gate[1].raised /\ gate[1].state = "SKIPPED"
  /\ ~gate[2].is_new /\ gate[2].state = "COMMIT_QUEUED"
  /\ NotifyOk(gate[2].id) # {}
  /\ StoredThisRun(gate[2].id) # {}
  /\ StoredThisRun(gate[1].id) = {}


\* Something stands in the way of the run, or stood in the way of the run
\* that has just ended: no store client, a baseline batch that failed, a
\* CHANGED record whose notification was not delivered, an insert that
\* failed.
Trouble ==
  \/ ~supabase
  \/ \E q \in Range(rpcLog) : ~q.ok
  \/ \E j \in DOMAIN gate : gate[j].state = "SKIPPED"
  \/ \E c \in Range(commitLog) : ~c.ok
  \/ pc = "idle" /\ prev.ran /\ (prev.skipped # {} \/ prev.commitFailed)

\* What the price source holds, as main passes it downstream.
External == Range(unique_drugs_list(ext))

\* The persisted baseline of the identifier has the external price.
Consistent(d) ==
  /\ Latest(history, IdOf(d)) # NoRow
  /\ SamePrice(Latest(history, IdOf(d)).current_price, d.Current_Price)

\* The run found the persisted baseline of the identifier at the external
\* price.
ConsistentBefore(d) ==
  /\ Latest(HistoryBefore, IdOf(d)) # NoRow
  /\ SamePrice(Latest(HistoryBefore, IdOf(d)).current_price, d.Current_Price)

\* No notify call is made for an identifier whose persisted baseline has
\* the external price, and the baseline keeps that price.
QuietOnceConsistent ==
  \A d \in External :
    ConsistentBefore(d) => (NotifyCalls(IdOf(d)) = {} /\ Consistent(d))

(***************************************************************************)
(* C26.  Eventual consistency across runs, the external prices being fixed: *)
(* if from some run on the baseline loads, the notifications and the        *)
(* inserts succeed, then eventually, and from then on, the persisted        *)
(* baseline of every identifier has the external price; and no notify call  *)
(* is made for an identifier in a run that found its baseline at the        *)
(* external price.                                                          *)
(***************************************************************************)
C26_EventuallyConsistent ==
  /\ <>[](~Trouble) => <>[](\A d \in External : Consistent(d))
  /\ []QuietOnceConsistent

\* The first run skipped a CHANGED record; the second run notified it and
\* stored it, and the persisted baseline has the external price.
C26_Witness ==
  /\ RunDone
  /\ prev.ran
  /\ ~Trouble
  /\ \E d \in External :
       /\ IdOf(d) \in prev.skipped
       /\ NotifyOk(IdOf(d)) # {}
       /\ ~ConsistentBefore(d)
       /\ Consistent(d)


\* The results of the tasks from shard s on, one after the other.
RECURSIVE ResultsInShardOrder(_)
ResultsInShardOrder(s) ==
  IF s > NShards THEN <<>> ELSE task[s].result \o ResultsInShardOrder(s + 1)

\* The shards whose result holds a record of a key, and the keys returned.
ShardsOf(k) == {s \in Shards : \E j \in DOMAIN task[s].result : task[s].result[j].id = k}
ReturnedKeys == {k \in UNION {{task[s].result[j].id : j \in DOMAIN task[s].result} : s \in Shards} :
                   Truthy(k)}

\* The last record of a key in the result of a shard.
LastOf(k, s) ==
  LET js == {j \in DOMAIN task[s].result : task[s].result[j].id = k}
  IN task[s].result[CHOOSE j \in js : \A h \in js : h <= j]

(***************************************************************************)
(* C27.  Whatever the order in which the shard fetches end, the gathered    *)
(* records are the results of the tasks put together in the order of the    *)
(* shards, and for every key the shards returned one record is kept: the    *)
(* one of the last shard, in that order, that returned the key.             *)
(***************************************************************************)
C27_LastShardWins ==
  Gathered =>
    /\ ext = ResultsInShardOrder(1)
    /\ \A k \in ReturnedKeys :
         LET last == CHOOSE s \in ShardsOf(k) : \A t \in ShardsOf(k) : t <= s
             kept == {j \in DOMAIN drugs : drugs[j].ID = k}
         IN /\ Cardinality(kept) = 1
            /\ \A j \in kept : drugs[j] = map_api_record_to_internal(LastOf(k, last))

\* Shard 3 answered at its first attempt and shard 2 after a retry; the
\* record kept for "2" is the one of shard 3.
C27_Witness ==
  /\ Gathered
  /\ task[2].log = <<"fail", "list">>
  /\ task[3].log = <<"list">>
  /\ ShardsOf(Str("2")) = {2, 3}
  /\ \E j \in DOMAIN drugs : drugs[j].ID = Str("2") /\ drugs[j].Barcode = Str("c")


\* The steps a shard-fetch task can still take: three per attempt left (the
\* semaphore, the answer, the end of the sleep).
TaskRank(s) ==
  LET left == 3 * (MAX_RETRIES - task[s].attempt)
  IN CASE task[s].pc = "acquire" -> left
       [] task[s].pc = "request" -> left - 1
       [] task[s].pc = "sleep" -> left - 2
       [] OTHER -> 0

RECURSIVE TaskRankSum(_)
TaskRankSum(s) == IF s > NShards THEN 0 ELSE TaskRank(s) + TaskRankSum(s + 1)

\* More than the steps of any one stage of main.
StageWeight == 3 * MAX_RETRIES * NShards + 100

\* A measure of what main has left to do: the stages left, and the steps
\* left in the stage it is in (gather or the end of the loop included).
Rank ==
  CASE pc = "start" -> 6 * StageWeight
    [] pc = "fetch" -> 5 * StageWeight + TaskRankSum(1) + 1
    [] pc = "load" ->
         4 * StageWeight + Len(all_ids_to_check) + BATCH_RPC_SIZE - i
    [] pc = "notify" -> 3 * StageWeight + Len(records_to_commit) + 1 - i
    [] pc = "commit" ->
         2 * StageWeight + Len(supabase_records) + BATCH_INSERT_SIZE - i
    [] pc = "finally" -> StageWeight
    [] OTHER -> 0

(***************************************************************************)
(* C28.  Every run terminates.  A task makes at most MAX_RETRIES attempts;  *)
(* every step of main and of its tasks lowers a natural number, which is 0  *)
(* exactly when main has returned; and as long as main has not returned a   *)
(* step can be taken (a task that waits for the semaphore is never the only *)
(* thing left while no permit is free).  So main returns, provided the      *)
(* steps that can be taken are taken: every request and every sleep         *)
(* returns and the semaphore is granted.                                    *)
(***************************************************************************)
C28_EveryRunTerminates ==
  /\ [][Rank' < Rank]_vars
  /\ [](/\ Rank >= 0
        /\ Rank = 0 <=> exit.returned
        /\ ~exit.returned => ENABLED NextFetch
        /\ \A s \in Shards :
             /\ task[s].attempt <= MAX_RETRIES
             /\ Len(task[s].log) <= MAX_RETRIES
        /\ pc = "load" => i < Len(all_ids_to_check) + BATCH_RPC_SIZE
        /\ pc = "notify" => i <= Len(records_to_commit)
        /\ pc = "commit" => i < Len(supabase_records) + BATCH_INSERT_SIZE)

\* main has returned from a run in which a shard failed at every attempt and
\* rows were inserted.
C28_Witness ==
  /\ exit.returned
  /\ exit.logged
  /\ \E s \in Shards : Exhausted(s)
  /\ \E j \in DOMAIN history : history[j].scraped_at = 1


(***************************************************************************)
(* C29.  Without a store client process_and_commit_changes returns at once: *)
(* the run makes no baseline rpc, no notify call and no insert, and leaves  *)
(* the store as it found it, whatever the candidates are.  And a run whose  *)
(* commit queue is empty when the notification loop is over builds no row   *)
(* and makes no insert call.                                                *)
(***************************************************************************)
C29_NoStoreNoEffectEmptyQueueNoWrite ==
  /\ ~supabase =>
       /\ pc \in {"idle", "finally"}
       /\ rpcLog = <<>>
       /\ notifyLog = <<>>
       /\ commitLog = <<>>
       /\ records_to_commit = <<>>
       /\ gate = <<>>
       /\ history = HistoryBefore
  /\ pc = "commit" => final_records_to_upload # <<>>
  /\ (NotifyDone /\ final_records_to_upload = <<>>) =>
       /\ supabase_records = <<>>
       /\ commitLog = <<>>
       /\ history = HistoryBefore

\* A run ended with an empty queue: of its two CHANGED records one had a
\* notify call that was not delivered and the other none; no insert was
\* made.
C29_Witness ==
  /\ RunDone /\ NotifyDone
  /\ Len(gate) = 2
  /\ \A j \in DOMAIN gate : gate[j].state = "SKIPPED"
  /\ \E n \in DOMAIN notifyLog : ~notifyLog[n].ok
  /\ final_records_to_upload = <<>>
  /\ commitLog = <<>>


(***************************************************************************)
(* C30.  are_values_different is symmetric and irreflexive over None,       *)
(* numbers, decimal strings, ISO timestamps and other strings; and the      *)
(* second comparison of the notification loop agrees with the first, so     *)
(* that no entry takes its no-change branch.                                *)
(***************************************************************************)
C30_SymmetricIrreflexive ==
  /\ cmp.pc = "done" => (cmp.forth = cmp.back /\ ~cmp.self)
  /\ \A j \in DOMAIN gate : gate[j].state # "IGNORED"

====
